---- MODULE Spec2Model ----
(***************************************************************************)
(* Model of the automation workflow engine of WhatsApi: the QueueManager   *)
(* (src/src/services/QueueManager.ts) and the AutomationEngine             *)
(* (src/unnamed/part_014).                                                 *)
(*                                                                         *)
(* Time is the JavaScript clock in milliseconds.  A QueueJob object is     *)
(* identified by the order in which addJob constructed it (its index in    *)
(* `jobs`); the queues, the in-flight batches and the retry timers hold    *)
(* references to these objects, as the arrays and closures of the code do. *)
(***************************************************************************)
EXTENDS Integers, Sequences, FiniteSets, TLC

(***************************************************************************)
(* Bounds of the model.                                                    *)
(***************************************************************************)
\* Number of QueueJob objects addJob may construct.
MaxJobs == 3
\* Number of clock steps during which new work (addJob, walks) may arrive;
\* afterwards the clock only moves to the next pending timer.
MaxTicks == 1
\* Number of jobs that may enter the long retry chain (max_attempts = 5).
MaxRetryJobs == 1
\* Number of jobs added while queues are paused, cleared and destroyed.
MaxAdminJobs == 2
\* Number of executeAutomation calls.
MaxWalks == 1
\* Calls of executeAutomation that may run side by side on one contact.
MaxTagWalks == 2
\* Calls of executeConditionAction the call stack holds, one inside the other,
\* before the runtime throws "RangeError: Maximum call stack size exceeded".
MaxDepth == 3
\* Number of processIncomingMessage calls.
MaxEvents == 1
\* options.maxConcurrent as passed to the constructor (default 5): kept small
\* so that a batch shorter than the queue occurs.
maxConcurrent == 2

(***************************************************************************)
(* Program constants.                                                      *)
(***************************************************************************)
retryDelay == 60000
maxRetries == 3
RetryCap == 300000
SweepInterval == 60000

QueueTypes == {"send_message", "automation_action", "campaign_message", "delayed_action"}

NoPayload == [kind |-> "none"]
DataPayload == [kind |-> "data"]

Min(a, b) == IF a <= b THEN a ELSE b

RECURSIVE Pow2(_)
Pow2(n) == IF n <= 0 THEN 1 ELSE 2 * Pow2(n - 1)

Range(s) == {s[i] : i \in 1..Len(s)}

VARIABLES
  now,          \* Date.now()
  jobs,         \* every QueueJob object constructed by addJob, by identity
  queues,       \* this.queues: queue type -> array of job references
  processing,   \* this.processing: queue type -> busy flag
  workers,      \* this.workers: the queue types that have a polling interval
  intervals,    \* queue type -> the number of setInterval timers of startProcessor
                \* for that type that have not been cleared
  batches,      \* the jobsToProcess arrays of the ticks still awaiting Promise.all
  retryTimers,  \* the pending setTimeout closures of processJob
  emitted,      \* the 'job_completed' and 'job_failed' events emitted so far,
                \* each with its job and the number of the attempt
  clearedJobs,  \* the jobs that had been added to a type when clearQueue was
                \* called for it, where those calls are observed
  walks,        \* the executeAutomation calls made so far, by order of call
  contactStore, \* the contacts table: contact id -> stored tags
  analytics,    \* the events handed to AnalyticsService.recordEvent
  automationTable,   \* the automations table: id -> "active", "inactive" or "absent"
  auditLog,          \* the log lines "Loaded ... active automations", "Created
                     \* automation ...", "Deleted automation ...", each with the
                     \* number of messages received and of jobs constructed so far
  activeAutomations, \* this.activeAutomations: the ids of the Map, in insertion order
  loading,           \* the loadActiveAutomations call of the constructor is pending
  events             \* the processIncomingMessage calls made so far, by order of call

qvars == <<now, jobs, queues, processing, workers, intervals, batches, retryTimers, emitted,
          clearedJobs>>
rvars == <<automationTable, auditLog, activeAutomations, loading, events>>
evars == <<walks, contactStore, analytics, automationTable, auditLog,
           activeAutomations, loading, events>>
vars == <<now, jobs, queues, processing, workers, intervals, batches, retryTimers, emitted,
          clearedJobs, walks, contactStore, analytics, automationTable, auditLog,
          activeAutomations, loading, events>>

JobIds == DOMAIN jobs

\* Variant: the exponent of the comment, 2 ^ attempt.
calculateRetryDelay_NoMinusOne(attempt) == Min(retryDelay * Pow2(attempt), RetryCap)

(***************************************************************************)
(* QueueManager.calculateRetryDelay                                        *)
(***************************************************************************)
calculateRetryDelay(attempt) == Min(retryDelay * Pow2(attempt - 1), RetryCap)

(***************************************************************************)
(* QueueManager.insertJobByPriority: before the first entry of strictly    *)
(* lower priority, else at the end.                                        *)
(***************************************************************************)
InsertPos(queue, j, heap) ==
  LET lower == {i \in 1..Len(queue) : heap[j].priority > heap[queue[i]].priority}
  IN IF lower = {} THEN Len(queue) + 1
     ELSE CHOOSE i \in lower : \A k \in lower : i <= k

\* Variant: the comparison is >=, so a job overtakes its equals.
insertJobByPriority_Unstable(queue, j, heap) ==
  LET ahead == {i \in 1..Len(queue) : heap[j].priority >= heap[queue[i]].priority}
      p     == IF ahead = {} THEN Len(queue) + 1
               ELSE CHOOSE i \in ahead : \A k \in ahead : i <= k
  IN SubSeq(queue, 1, p - 1) \o <<j>> \o SubSeq(queue, p, Len(queue))

insertJobByPriority(queue, j, heap) ==
  LET p == InsertPos(queue, j, heap)
  IN SubSeq(queue, 1, p - 1) \o <<j>> \o SubSeq(queue, p, Len(queue))

(***************************************************************************)
(* QueueManager.addJob.  `job` is the Partial<QueueJob> argument: a        *)
(* priority or max_attempts of 0 and a scheduled_at of NoDate stand for an *)
(* absent (falsy) field, which `||` replaces by its default.               *)
(***************************************************************************)
NoDate == -1

\* Variant: max_attempts without its default.
FullJob_NoDefault(job) ==
  [ job_type     |-> job.job_type,
    user_id      |-> job.user_id,
    priority     |-> job.priority,
    payload      |-> job.payload,
    scheduled_at |-> IF job.scheduled_at = NoDate THEN now ELSE job.scheduled_at,
    attempts     |-> 0,
    max_attempts |-> job.max_attempts,
    status       |-> "pending" ]

FullJob(job) ==
  [ job_type     |-> job.job_type,
    user_id      |-> job.user_id,
    priority     |-> job.priority,
    payload      |-> job.payload,
    scheduled_at |-> IF job.scheduled_at = NoDate THEN now ELSE job.scheduled_at,
    attempts     |-> 0,
    max_attempts |-> IF job.max_attempts = 0 THEN maxRetries ELSE job.max_attempts,
    status       |-> "pending" ]

\* The database methods of the scheduled-job store are stubs: storeScheduledJob
\* only logs, getScheduledJobs returns the empty list.
storeScheduledJob(heap, j) == heap

getScheduledJobs(before) == << >>

\* The heap and the queues after addJob(job), given those before it.
AddJobHeap(heap, job) == storeScheduledJob(Append(heap, FullJob(job)), Len(heap) + 1)

\* Variant: no test of scheduled_at against the clock.
AddJobQueues_NoDefer(heap, qs, job) ==
  LET full == FullJob(job)
      j    == Len(heap) + 1
      h2   == Append(heap, full)
  IN IF full.job_type \in DOMAIN qs
       THEN [qs EXCEPT ![full.job_type] = insertJobByPriority(@, j, h2)]
       ELSE qs

AddJobQueues(heap, qs, job) ==
  LET full == FullJob(job)
      j    == Len(heap) + 1
      h2   == Append(heap, full)
  IN IF full.scheduled_at > now THEN qs
     ELSE IF full.job_type \in DOMAIN qs
          THEN [qs EXCEPT ![full.job_type] = insertJobByPriority(@, j, h2)]
          ELSE qs

(***************************************************************************)
(* The jobs callers outside the engine hand to addJob.                     *)
(***************************************************************************)
JobInputs ==
  { [job_type |-> "send_message", user_id |-> 1, priority |-> p, payload |-> DataPayload,
     scheduled_at |-> NoDate, max_attempts |-> 0] : p \in {1, 5} }
  \cup
  { [job_type |-> "campaign_message", user_id |-> 1, priority |-> 1, payload |-> DataPayload,
     scheduled_at |-> NoDate, max_attempts |-> 0],
    [job_type |-> "send_message", user_id |-> 1, priority |-> 5, payload |-> NoPayload,
     scheduled_at |-> NoDate, max_attempts |-> 2] }

\* The jobs added while queues are paused, cleared and destroyed: one that
\* succeeds, and two whose handler throws (max_attempts defaulted, and 1).
AdminJobInputs ==
  { [job_type |-> "send_message", user_id |-> 1, priority |-> 1, payload |-> DataPayload,
     scheduled_at |-> NoDate, max_attempts |-> 0] }
  \cup
  { [job_type |-> "send_message", user_id |-> 1, priority |-> 5, payload |-> NoPayload,
     scheduled_at |-> NoDate, max_attempts |-> m] : m \in {0, 1} }

\* The jobs added while a queue is paused and resumed: one that succeeds and
\* one whose handler throws and that is retried once.
PauseJobInputs ==
  { [job_type |-> "send_message", user_id |-> 1, priority |-> 1, payload |-> DataPayload,
     scheduled_at |-> NoDate, max_attempts |-> 0],
    [job_type |-> "send_message", user_id |-> 1, priority |-> 5, payload |-> NoPayload,
     scheduled_at |-> NoDate, max_attempts |-> 2] }

\* Jobs of two types that are due at once: two whose handler returns and one
\* whose handler throws and that is retried once.
PlaceJobInputs ==
  { [job_type |-> t, user_id |-> 1, priority |-> 1, payload |-> DataPayload,
     scheduled_at |-> NoDate, max_attempts |-> 0] : t \in {"send_message", "campaign_message"} }
  \cup
  { [job_type |-> "send_message", user_id |-> 1, priority |-> 5, payload |-> NoPayload,
     scheduled_at |-> NoDate, max_attempts |-> 2] }

FutureJobInputs ==
  { [job_type |-> "send_message", user_id |-> 1, priority |-> 1, payload |-> DataPayload,
     scheduled_at |-> now + SweepInterval, max_attempts |-> 0] }

\* Jobs whose handler throws on every attempt, with max_attempts 3 (default), 1 and 5.
RetryJobInputs ==
  { [job_type |-> "send_message", user_id |-> 1, priority |-> p, payload |-> NoPayload,
     scheduled_at |-> NoDate, max_attempts |-> m] : p \in {0, 5}, m \in {0, 1, 5} }

\* Jobs whose handler returns, and jobs whose handler throws on every
\* attempt, with max_attempts 3 (default), 1, 2 and 5.
OutcomeJobInputs ==
  { [job_type |-> t, user_id |-> 1, priority |-> 1, payload |-> DataPayload,
     scheduled_at |-> NoDate, max_attempts |-> 0] : t \in {"send_message", "campaign_message"} }
  \cup
  { [job_type |-> "send_message", user_id |-> 1, priority |-> 5, payload |-> NoPayload,
     scheduled_at |-> NoDate, max_attempts |-> m] : m \in {0, 1, 2, 5} }

\* The jobs of one type that fill more than one batch: one whose handler
\* returns and one whose handler throws and that is given up at once.
BatchJobInputs ==
  { [job_type |-> "send_message", user_id |-> 1, priority |-> 1, payload |-> DataPayload,
     scheduled_at |-> NoDate, max_attempts |-> 0],
    [job_type |-> "send_message", user_id |-> 1, priority |-> 1, payload |-> NoPayload,
     scheduled_at |-> NoDate, max_attempts |-> 1] }

Horizon == MaxTicks * SweepInterval

AddJob(job) ==
  /\ Len(jobs) < MaxJobs
  /\ now < Horizon
  /\ jobs' = AddJobHeap(jobs, job)
  /\ queues' = AddJobQueues(jobs, queues, job)
  /\ UNCHANGED <<now, processing, workers, intervals, batches, retryTimers, emitted, clearedJobs>>
  /\ UNCHANGED evars

\* addJob for a job that is going to be retried.
AddRetryJob(job) ==
  /\ Len(jobs) < MaxRetryJobs
  /\ AddJob(job)

\* addJob once MaxJobs job objects exist: the new object takes the place of
\* one that is completed or failed, which no queue, batch or timer refers to
\* any more.  The job is due at once and of the type of a queue.
AddJobReusing(j, job) ==
  /\ Len(jobs) = MaxJobs
  /\ j \in JobIds
  /\ jobs[j].status \in {"completed", "failed"}
  /\ \A b \in batches : j \notin Range(b.jobs)
  /\ FullJob(job).scheduled_at <= now
  /\ job.job_type \in DOMAIN queues
  /\ jobs' = [jobs EXCEPT ![j] = FullJob(job)]
  /\ queues' = [queues EXCEPT ![job.job_type] =
                  insertJobByPriority(@, j, [jobs EXCEPT ![j] = FullJob(job)])]
  /\ UNCHANGED <<now, processing, workers, intervals, batches, retryTimers, emitted, clearedJobs>>
  /\ UNCHANGED evars

\* addJob while the queues are being paused, cleared and destroyed.
AddAdminJob(job) ==
  /\ Len(jobs) < MaxAdminJobs
  /\ AddJob(job)

(***************************************************************************)
(* The interval callback of QueueManager.startProcessor, up to the first   *)
(* await: the batch is spliced off the head of the queue and processJob is *)
(* entered for each of its jobs in order (status, attempts).               *)
(***************************************************************************)
IsBusy(t) == t \in DOMAIN processing /\ processing[t]

\* Variant: the status is not set on entry.
StartJob_KeepsStatus(job) == [job EXCEPT !.attempts = @ + 1]

StartJob(job) == [job EXCEPT !.status = "processing", !.attempts = @ + 1]

\* Variant: the whole queue is taken.
TakeBatch_All(queue) == queue

TakeBatch(queue) == SubSeq(queue, 1, Min(maxConcurrent, Len(queue)))

\* Variant: the batch is copied from the head of the queue (slice), which
\* keeps its jobs.
DispatchTick_Slice(t) ==
  /\ intervals[t] > 0
  /\ ~IsBusy(t)
  /\ t \in DOMAIN queues
  /\ Len(queues[t]) > 0
  /\ LET batch == TakeBatch(queues[t])
     IN /\ jobs' = [j \in DOMAIN jobs |->
                      IF j \in Range(batch) THEN StartJob(jobs[j]) ELSE jobs[j]]
        /\ batches' = batches \cup {[queueType |-> t, jobs |-> batch, settled |-> {}]}
  /\ processing' = (t :> TRUE) @@ processing
  /\ UNCHANGED <<now, queues, workers, intervals, retryTimers, emitted, clearedJobs>>
  /\ UNCHANGED evars

\* The callback of a polling interval of type t that has not been cleared.
DispatchTick(t) ==
  /\ intervals[t] > 0
  /\ ~IsBusy(t)
  /\ t \in DOMAIN queues
  /\ Len(queues[t]) > 0
  /\ LET batch == TakeBatch(queues[t])
     IN /\ queues' = [queues EXCEPT ![t] = SubSeq(@, Len(batch) + 1, Len(@))]
        /\ jobs' = [j \in DOMAIN jobs |->
                      IF j \in Range(batch) THEN StartJob(jobs[j]) ELSE jobs[j]]
        /\ batches' = batches \cup {[queueType |-> t, jobs |-> batch, settled |-> {}]}
  /\ processing' = (t :> TRUE) @@ processing
  /\ UNCHANGED <<now, workers, intervals, retryTimers, emitted, clearedJobs>>
  /\ UNCHANGED evars

(***************************************************************************)
(* The rest of QueueManager.processJob for one job of a batch: the handler *)
(* returns or throws, and the job completes, is handed to a retry timer or *)
(* fails for good.                                                         *)
(***************************************************************************)
\* The three handlers destructure job.payload first, which throws on an absent
\* payload; the mock message service always reports success; a job of a type
\* outside the switch throws "Unknown job type".
HandlerThrows(job) ==
  \/ job.job_type \notin {"send_message", "automation_action", "campaign_message"}
  \/ job.payload = NoPayload

\* Variant: the handler re-enters the executor at the stored action.
processAutomationActionJob_Resumes(job, ws) ==
  Append(ws, [automation |-> job.payload.automation_id,
              pos |-> 0, trace |-> << job.payload.action_id >>,
              contact |-> [id |-> job.payload.contact_id, tags |-> << >>],
              state |-> "resumed", event |-> 0, webhooks |-> << >>,
              frames |-> << >>, depth |-> 0])

\* QueueManager.processAutomationActionJob reads the payload and logs a line:
\* the walks started by the engine are what they were.
processAutomationActionJob(job, ws) == ws

\* Variant: one attempt too many.
WillRetry_OffByOne(job) == job.attempts <= job.max_attempts

WillRetry(job) == job.attempts < job.max_attempts

\* Variant: every failed attempt emits the failure event.
Emits_EveryFailure(job) ==
  IF ~HandlerThrows(job) THEN {"job_completed"} ELSE {"job_failed"}

\* The events one processJob call emits: 'job_completed' after the handler
\* returned, 'job_failed' in the branch that gives the job up.
Emits(job) ==
  IF ~HandlerThrows(job) THEN {"job_completed"}
  ELSE IF WillRetry(job) THEN {}
  ELSE {"job_failed"}

JobFinish(b, j) ==
  /\ b \in batches
  /\ j \in Range(b.jobs) \ b.settled
  /\ IF ~HandlerThrows(jobs[j])
       THEN /\ jobs' = [jobs EXCEPT ![j].status = "completed"]
            /\ UNCHANGED retryTimers
       ELSE IF WillRetry(jobs[j])
         THEN /\ jobs' = [jobs EXCEPT ![j].status = "pending"]
              /\ retryTimers' = retryTimers \cup
                   {[job |-> j, delay |-> calculateRetryDelay(jobs[j].attempts),
                     due |-> now + calculateRetryDelay(jobs[j].attempts)]}
         ELSE /\ jobs' = [jobs EXCEPT ![j].status = "failed"]
              /\ UNCHANGED retryTimers
  /\ walks' = IF jobs[j].job_type = "automation_action" /\ ~HandlerThrows(jobs[j])
                THEN processAutomationActionJob(jobs[j], walks)
                ELSE walks
  /\ emitted' = emitted \cup
       {[event |-> ev, job |-> j, attempt |-> jobs[j].attempts] : ev \in Emits(jobs[j])}
  /\ batches' = (batches \ {b}) \cup {[b EXCEPT !.settled = @ \cup {j}]}
  /\ UNCHANGED <<now, queues, processing, workers, intervals, clearedJobs>>
  /\ UNCHANGED <<contactStore, analytics>>
  /\ UNCHANGED rvars

\* Promise.all has resolved: the finally block clears the busy flag.
BatchDone(b) ==
  /\ b \in batches
  /\ b.settled = Range(b.jobs)
  /\ batches' = batches \ {b}
  /\ processing' = (b.queueType :> FALSE) @@ processing
  /\ UNCHANGED <<now, jobs, queues, workers, intervals, retryTimers, emitted, clearedJobs>>
  /\ UNCHANGED evars

\* The setTimeout callback of processJob: re-insert the job by priority, if
\* the queue of its type still exists.
RetryTimerFire(tm) ==
  /\ tm \in retryTimers
  /\ now >= tm.due
  /\ retryTimers' = retryTimers \ {tm}
  /\ queues' = IF jobs[tm.job].job_type \in DOMAIN queues
                 THEN [queues EXCEPT ![jobs[tm.job].job_type] =
                          insertJobByPriority(@, tm.job, jobs)]
                 ELSE queues
  /\ UNCHANGED <<now, jobs, processing, workers, intervals, batches, emitted, clearedJobs>>
  /\ UNCHANGED evars

(***************************************************************************)
(* QueueManager.processScheduledJobs: addJob for every stored job that is  *)
(* due.                                                                    *)
(***************************************************************************)
RECURSIVE SweepHeap(_, _)
SweepHeap(heap, due) ==
  IF due = << >> THEN heap ELSE SweepHeap(AddJobHeap(heap, Head(due)), Tail(due))

RECURSIVE SweepQueues(_, _, _)
SweepQueues(heap, qs, due) ==
  IF due = << >> THEN qs
  ELSE SweepQueues(AddJobHeap(heap, Head(due)), AddJobQueues(heap, qs, Head(due)), Tail(due))

processScheduledJobs ==
  /\ jobs' = SweepHeap(jobs, getScheduledJobs(now))
  /\ queues' = SweepQueues(jobs, queues, getScheduledJobs(now))
  /\ UNCHANGED <<now, processing, workers, intervals, batches, retryTimers, emitted, clearedJobs>>
  /\ UNCHANGED evars

(***************************************************************************)
(* pauseQueue, resumeQueue, clearQueue, destroy                            *)
(***************************************************************************)
\* pauseQueue: clearInterval on the interval the Map holds for the type, and
\* the entry is deleted; nothing happens when the Map holds none.
pauseQueue(t) ==
  /\ t \in workers
  /\ workers' = workers \ {t}
  /\ intervals' = [intervals EXCEPT ![t] = @ - 1]
  /\ UNCHANGED <<now, jobs, queues, processing, batches, retryTimers, emitted, clearedJobs>>
  /\ UNCHANGED evars

\* Variant: startProcessor is called whether or not the Map holds an interval.
resumeQueue_Always(t) ==
  /\ workers' = workers \cup {t}
  /\ intervals' = [intervals EXCEPT ![t] = @ + 1]
  /\ UNCHANGED <<now, jobs, queues, processing, batches, retryTimers, emitted, clearedJobs>>
  /\ UNCHANGED evars

\* resumeQueue: startProcessor sets a new interval and stores it in the Map,
\* unless the Map holds one for the type.
resumeQueue(t) ==
  /\ t \notin workers
  /\ workers' = workers \cup {t}
  /\ intervals' = [intervals EXCEPT ![t] = @ + 1]
  /\ UNCHANGED <<now, jobs, queues, processing, batches, retryTimers, emitted, clearedJobs>>
  /\ UNCHANGED evars

\* clearQueue: queue.length = 0.  (What the step does to clearedJobs is said
\* where the step is used: the program has no such record.)
clearQueue(t) ==
  /\ t \in DOMAIN queues
  /\ queues' = [queues EXCEPT ![t] = << >>]
  /\ UNCHANGED <<now, jobs, processing, workers, intervals, batches, retryTimers, emitted>>
  /\ UNCHANGED evars

\* clearQueue where the calls are not observed.
ClearUnobserved(t) ==
  /\ clearQueue(t)
  /\ UNCHANGED clearedJobs

EmptyMap == [t \in {} |-> FALSE]

destroy ==
  /\ workers' = {}
  /\ intervals' = [t \in DOMAIN intervals |->
                     IF t \in workers THEN intervals[t] - 1 ELSE intervals[t]]
  /\ queues' = [t \in {} |-> << >>]
  /\ processing' = EmptyMap
  /\ UNCHANGED <<now, jobs, batches, retryTimers, emitted, clearedJobs>>
  /\ UNCHANGED evars

(***************************************************************************)
(* The clock.  Within the horizon it moves in steps of the sweep period;   *)
(* beyond it, to the next pending retry timer.                             *)
(***************************************************************************)
PendingTimes == {tm.due : tm \in retryTimers}

AdvanceTime ==
  /\ \/ /\ now < Horizon
        /\ now' = now + SweepInterval
     \/ /\ now >= Horizon
        /\ \E tnext \in PendingTimes :
             /\ tnext > now
             /\ \A u \in PendingTimes : u > now => tnext <= u
             /\ now' = tnext
  /\ UNCHANGED <<jobs, queues, processing, workers, intervals, batches, retryTimers, emitted, clearedJobs>>
  /\ UNCHANGED evars

(***************************************************************************)
(* AutomationEngine (src/unnamed/part_014).                                *)
(*                                                                         *)
(* An action is [id, type, config, next_action_id]; a next_action_id of "" *)
(* stands for an absent one (both are falsy).  The automations are the     *)
(* delay examples of the integration guide and of the seed, one with a     *)
(* delay without successor, one with a dangling successor, and other       *)
(* units, one with a zero delay, one with a condition, one with a webhook  *)
(* call, and the automations the trigger evaluation is exercised with.     *)
(* A string that the code searches (message content, keyword) is the       *)
(* sequence of its characters.                                             *)
(***************************************************************************)
Contacts == {1, 2}

\* JavaScript values: numbers, strings (the sequence of their characters) and
\* undefined.
Num(n) == [t |-> "number", v |-> n]
Str(s) == [t |-> "string", v |-> s]
Undefined == [t |-> "undefined", v |-> 0]

\* contact.custom_fields of the stored contacts: contact 1 has a number and a
\* name of a city, contact 2 a number only.  No action of the automations
\* below writes a custom field.
CustomFields ==
  [c \in Contacts |->
     IF c = 1 THEN [age |-> Num(25), cidade |-> Str(<<"R", "i", "o">>)]
              ELSE [age |-> Num(10)]]

\* contact.name, contact.phone and contact.email of the stored contacts (a
\* contact made by findOrCreate has a phone only).
Profile ==
  [c \in Contacts |->
     [name |-> Undefined, phone |-> Str(<<"5", "5", "1", "1">>), email |-> Undefined]]

NoConfig == [kind |-> "none"]
SendCfg == [kind |-> "message"]
TagCfg(t) == [kind |-> "tag", tag |-> t]
DelayCfg(d, u) == [kind |-> "delay", duration |-> d, unit |-> u]
HookCfg == [kind |-> "webhook"]
CondCfg(field, operator, value, true_actions, false_actions) ==
  [kind |-> "condition", field |-> field, operator |-> operator, value |-> value,
   true_actions |-> true_actions, false_actions |-> false_actions]

Act(id, type, config, next) ==
  [id |-> id, type |-> type, config |-> config, next_action_id |-> next]

KwOi == <<"o", "i">>
KwValor == <<"v", "a", "l", "o", "r">>
KwHello == <<"h", "e", "l", "l", "o">>
ButtonPrefix ==
  <<"B", "U", "T", "T", "O", "N", "_", "P", "A", "Y", "L", "O", "A", "D", ":">>

Keyword(ks) == [keywords |-> ks]
Button(payload) == [button_payload |-> payload]
NoTrigger == [kind |-> "none"]

Automations ==
  [ a \in 1..20 |->
      CASE a = 1 ->  \* "Follow-up de Vendas"
             [user_id |-> 1, trigger_type |-> "keyword",
              trigger_config |-> Keyword(<<KwValor>>), actions |->
                << Act("1", "send_message", SendCfg, "2"),
                   Act("2", "delay", DelayCfg(30, "minutes"), "3"),
                   Act("3", "send_message", SendCfg, "") >>]
        [] a = 2 ->  \* "Follow-up de Interesse"
             [user_id |-> 1, trigger_type |-> "keyword",
              trigger_config |-> Keyword(<<KwValor>>), actions |->
                << Act("1", "send_message", SendCfg, ""),
                   Act("2", "add_tag", TagCfg("interessado"), ""),
                   Act("3", "delay", DelayCfg(30, "minutes"), "4"),
                   Act("4", "send_message", SendCfg, "") >>]
        [] a = 3 ->  \* delays with no successor, a dangling one, a valid one
             [user_id |-> 2, trigger_type |-> "keyword",
              trigger_config |-> Keyword(<<KwOi>>), actions |->
                << Act("1", "delay", DelayCfg(2, "hours"), ""),
                   Act("2", "delay", DelayCfg(10, "seconds"), "9"),
                   Act("3", "delay", DelayCfg(1, "days"), "4"),
                   Act("4", "add_tag", TagCfg("vip"), "") >>]
        [] a = 4 ->  \* a delay of zero: the continuation job is due at once
             [user_id |-> 1, trigger_type |-> "webhook",
              trigger_config |-> NoTrigger, actions |->
                << Act("1", "delay", DelayCfg(0, "seconds"), "2"),
                   Act("2", "add_tag", TagCfg("retomado"), "") >>]
        [] a = 5 ->  \* a condition on custom_fields.age; "9" names no action
             [user_id |-> 1, trigger_type |-> "schedule",
              trigger_config |-> NoTrigger, actions |->
                << Act("1", "condition",
                       CondCfg("age", "greater_than", Num(18), <<"2">>, <<"3", "9">>), ""),
                   Act("2", "send_message", SendCfg, ""),
                   Act("3", "add_tag", TagCfg("menor"), "") >>]
        [] a = 6 ->  \* a webhook call followed by another action
             [user_id |-> 1, trigger_type |-> "schedule",
              trigger_config |-> NoTrigger, actions |->
                << Act("1", "webhook", HookCfg, "2"),
                   Act("2", "send_message", SendCfg, "") >>]
        [] a = 7 ->  \* "Boas-vindas Automatica"
             [user_id |-> 1, trigger_type |-> "keyword",
              trigger_config |-> Keyword(<<KwHello, KwOi>>), actions |->
                << Act("1", "send_message", SendCfg, ""),
                   Act("2", "add_tag", TagCfg("novo_contato"), "") >>]
        [] a = 8 ->  \* a send_message action whose config has no `message`
             [user_id |-> 1, trigger_type |-> "keyword",
              trigger_config |-> Keyword(<<KwOi>>), actions |->
                << Act("1", "send_message", NoConfig, "") >>]
        [] a = 9 ->
             [user_id |-> 1, trigger_type |-> "keyword",
              trigger_config |-> Keyword(<<KwOi>>), actions |->
                << Act("1", "add_tag", TagCfg("saudado"), "") >>]
        [] a = 10 ->  \* a button_click automation, for the button "I"
             [user_id |-> 1, trigger_type |-> "button_click",
              trigger_config |-> Button(<<"I">>), actions |->
                << Act("1", "add_tag", TagCfg("clicou"), "") >>]
        [] a = 11 ->  \* created through the controller after startup
             [user_id |-> 1, trigger_type |-> "keyword",
              trigger_config |-> Keyword(<<KwOi>>), actions |->
                << Act("1", "add_tag", TagCfg("tardio"), "") >>]
        [] a = 12 ->  \* a tag added twice, then removed twice
             [user_id |-> 1, trigger_type |-> "schedule",
              trigger_config |-> NoTrigger, actions |->
                << Act("1", "add_tag", TagCfg("vip"), ""),
                   Act("2", "add_tag", TagCfg("vip"), ""),
                   Act("3", "remove_tag", TagCfg("vip"), ""),
                   Act("4", "remove_tag", TagCfg("vip"), "") >>]
        [] a = 13 ->  \* a condition that compares the name of a city with 5
             [user_id |-> 1, trigger_type |-> "schedule",
              trigger_config |-> NoTrigger, actions |->
                << Act("1", "condition",
                       CondCfg("cidade", "less_than", Num(5), <<"2">>, <<"3">>), ""),
                   Act("2", "send_message", SendCfg, ""),
                   Act("3", "add_tag", TagCfg("nao"), "") >>]
        [] a = 14 ->  \* ... and with 0
             [user_id |-> 1, trigger_type |-> "schedule",
              trigger_config |-> NoTrigger, actions |->
                << Act("1", "condition",
                       CondCfg("cidade", "greater_than", Num(0), <<"2">>, <<"3">>), ""),
                   Act("2", "send_message", SendCfg, ""),
                   Act("3", "add_tag", TagCfg("nao"), "") >>]
        [] a = 15 ->  \* a number compared with the string "18"
             [user_id |-> 1, trigger_type |-> "schedule",
              trigger_config |-> NoTrigger, actions |->
                << Act("1", "condition",
                       CondCfg("age", "greater_than", Str(<<"1", "8">>), <<"2">>, <<"3">>), ""),
                   Act("2", "send_message", SendCfg, ""),
                   Act("3", "add_tag", TagCfg("nao"), "") >>]
        [] a = 16 ->  \* a keyword automation with an empty list of keywords
             [user_id |-> 2, trigger_type |-> "keyword",
              trigger_config |-> Keyword(<< >>), actions |->
                << Act("1", "add_tag", TagCfg("vazio"), "") >>]
        [] a = 17 ->  \* ... and one without a list
             [user_id |-> 2, trigger_type |-> "keyword",
              trigger_config |-> NoTrigger, actions |->
                << Act("1", "add_tag", TagCfg("vazio"), "") >>]
        [] a = 18 ->  \* a condition whose true_actions end with its own id
             [user_id |-> 1, trigger_type |-> "schedule",
              trigger_config |-> NoTrigger, actions |->
                << Act("1", "condition",
                       CondCfg("age", "greater_than", Num(18), <<"2", "1">>, << >>), ""),
                   Act("2", "add_tag", TagCfg("maior"), "") >>]
        [] a = 19 ->  \* a condition whose true_actions are its own id alone
             [user_id |-> 1, trigger_type |-> "schedule",
              trigger_config |-> NoTrigger, actions |->
                << Act("1", "condition",
                       CondCfg("age", "greater_than", Num(18), <<"1">>, <<"2">>), ""),
                   Act("2", "add_tag", TagCfg("menor"), "") >>]
        [] a = 20 ->  \* two conditions that lead to each other
             [user_id |-> 1, trigger_type |-> "schedule",
              trigger_config |-> NoTrigger, actions |->
                << Act("1", "condition",
                       CondCfg("age", "greater_than", Num(18), <<"2">>, << >>), ""),
                   Act("2", "condition",
                       CondCfg("age", "less_than", Num(18), <<"3">>, <<"3", "1">>), ""),
                   Act("3", "add_tag", TagCfg("maior"), "") >>] ]

AutomationIds == DOMAIN Automations

\* The automations the walks of each specification are started for.
DelayExampleIds == {1, 2, 3}
\* The contact a delay example is executed for: one of the automation's user.
ExampleContacts(a) == {c \in Contacts : c = Automations[a].user_id}
ResumeIds == {4}
BranchIds == {5, 6}
CreatedLater == {11}
Deletable == {7}
\* The automations made of tag actions only: two that add one tag each, and
\* the one that adds and removes the same tag.
TagIds == {9, 10, 12}
\* The automations whose condition compares with greater_than or less_than.
CompareIds == {13, 14, 15}
\* The automations with a condition that leads back to itself.
CycleIds == {18, 19, 20}

\* automation.actions.find(a => a.id === id): the index of the first action
\* with that id, 0 if there is none.
FindAction(a, id) ==
  LET acts == Automations[a].actions
      hits == {i \in 1..Len(acts) : acts[i].id = id}
  IN IF hits = {} THEN 0 ELSE CHOOSE i \in hits : \A k \in hits : i <= k

\* AutomationEngine.convertDelayToMs
Multiplier(unit) ==
  CASE unit = "seconds" -> 1000
    [] unit = "minutes" -> 60 * 1000
    [] unit = "hours"   -> 60 * 60 * 1000
    [] unit = "days"    -> 24 * 60 * 60 * 1000
    [] OTHER            -> 1000

\* Variant: every unit counts as seconds.
convertDelayToMs_Seconds(duration, unit) == duration * 1000

convertDelayToMs(duration, unit) == duration * Multiplier(unit)

\* Variant: the message job is scheduled one second ahead.
SendMessageJob_Later(a, contact) ==
  [ job_type |-> "send_message", user_id |-> Automations[a].user_id, priority |-> 1,
    payload |-> [kind |-> "message", contact_id |-> contact.id, automation_id |-> a],
    scheduled_at |-> now + 1000, max_attempts |-> 0 ]

\* The job executeSendMessageAction hands to addJob.
SendMessageJob(a, contact) ==
  [ job_type |-> "send_message", user_id |-> Automations[a].user_id, priority |-> 1,
    payload |-> [kind |-> "message", contact_id |-> contact.id, automation_id |-> a],
    scheduled_at |-> now, max_attempts |-> 0 ]

\* The job executeDelayAction hands to addJob for the successor `nextAction`.
ContinuationJob(a, action, nextAction, contact) ==
  [ job_type |-> "automation_action", user_id |-> Automations[a].user_id, priority |-> 0,
    payload |-> [kind |-> "continuation", automation_id |-> a,
                 action_id |-> nextAction.id, contact_id |-> contact.id],
    scheduled_at |-> now + convertDelayToMs(action.config.duration, action.config.unit),
    max_attempts |-> 0 ]

\* The jobs one action hands to addJob, in order.
ActionJobs(a, action, contact) ==
  CASE action.type = "send_message" -> << SendMessageJob(a, contact) >>
    [] action.type = "delay" ->
         IF action.next_action_id # "" /\ FindAction(a, action.next_action_id) # 0
           THEN << ContinuationJob(a, action,
                     Automations[a].actions[FindAction(a, action.next_action_id)],
                     contact) >>
           ELSE << >>
    [] OTHER -> << >>

\* executeAddTagAction and executeRemoveTagAction on the walk's own contact
\* object: push unless included; splice(indexOf(tag), 1) if found.
HasTag(contact, t) == \E i \in 1..Len(contact.tags) : contact.tags[i] = t

IndexOf(tags, t) ==
  IF \E i \in 1..Len(tags) : tags[i] = t
    THEN CHOOSE i \in 1..Len(tags) : tags[i] = t /\ \A k \in 1..(i - 1) : tags[k] # t
    ELSE 0

Splice1(tags, i) == SubSeq(tags, 1, i - 1) \o SubSeq(tags, i + 1, Len(tags))

\* Variant: add_tag pushes without looking.
ContactAfter_AlwaysPush(action, contact) ==
  CASE action.type = "add_tag" ->
         [contact EXCEPT !.tags = Append(@, action.config.tag)]
    [] action.type = "remove_tag" /\ IndexOf(contact.tags, action.config.tag) > 0 ->
         [contact EXCEPT !.tags = Splice1(@, IndexOf(@, action.config.tag))]
    [] OTHER -> contact

ContactAfter(action, contact) ==
  CASE action.type = "add_tag" /\ ~HasTag(contact, action.config.tag) ->
         [contact EXCEPT !.tags = Append(@, action.config.tag)]
    [] action.type = "remove_tag" /\ IndexOf(contact.tags, action.config.tag) > 0 ->
         [contact EXCEPT !.tags = Splice1(@, IndexOf(@, action.config.tag))]
    [] OTHER -> contact

\* Variant: the write adds the new tags of the object to the stored ones.
StoreAfter_Merge(store, action, contact) ==
  IF ContactAfter(action, contact) # contact
    THEN [store EXCEPT ![contact.id] =
            @ \o SelectSeq(ContactAfter(action, contact).tags,
                           LAMBDA t : /\ ~HasTag(contact, t)
                                      /\ \A i \in 1..Len(store[contact.id]) :
                                           store[contact.id][i] # t)]
    ELSE store

\* updateContact is called exactly when the action changed the contact object:
\* contactRepository.update writes the tags of the object over the stored ones.
StoreAfter(store, action, contact) ==
  IF ContactAfter(action, contact) # contact
    THEN [store EXCEPT ![contact.id] = ContactAfter(action, contact).tags]
    ELSE store

\* The executors that read a member of config.message, config.delay or
\* config.condition throw a TypeError when the config lacks that object.
ActionThrows(action) ==
  /\ action.type \in {"send_message", "delay", "condition"}
  /\ action.config = NoConfig

\* String.prototype.toLowerCase on the letters A to Z; every other character
\* of the inputs is its own lower case.
Capitals == <<"A", "B", "C", "D", "E", "F", "G", "H", "I", "J", "K", "L", "M",
              "N", "O", "P", "Q", "R", "S", "T", "U", "V", "W", "X", "Y", "Z">>
Smalls   == <<"a", "b", "c", "d", "e", "f", "g", "h", "i", "j", "k", "l", "m",
              "n", "o", "p", "q", "r", "s", "t", "u", "v", "w", "x", "y", "z">>

LowerChar(ch) ==
  IF \E i \in 1..26 : Capitals[i] = ch
    THEN Smalls[CHOOSE i \in 1..26 : Capitals[i] = ch]
    ELSE ch

toLowerCase(s) == [i \in 1..Len(s) |-> LowerChar(s[i])]

\* String.prototype.includes and startsWith
Includes(s, t) ==
  \E i \in 0..(Len(s) - Len(t)) : SubSeq(s, i + 1, i + Len(t)) = t

StartsWith(s, t) == Len(s) >= Len(t) /\ SubSeq(s, 1, Len(t)) = t

\* AutomationEngine.getContactFieldValue: a member of the contact, else the
\* member of custom_fields, undefined if there is none.
getContactFieldValue(contact, fieldName) ==
  IF fieldName \in {"name", "phone", "email"} THEN Profile[contact.id][fieldName]
  ELSE IF fieldName \in DOMAIN CustomFields[contact.id]
         THEN CustomFields[contact.id][fieldName]
         ELSE Undefined

\* Number(x): a number is itself, a string of decimal digits its value, the
\* empty string 0, and any other string and undefined are NaN.
NaN == [nan |-> TRUE, n |-> 0]

DigitChars == <<"0", "1", "2", "3", "4", "5", "6", "7", "8", "9">>

IsDigit(ch) == \E d \in 1..10 : DigitChars[d] = ch

DigitVal(ch) == (CHOOSE d \in 1..10 : DigitChars[d] = ch) - 1

RECURSIVE ParseDigits(_)
ParseDigits(s) ==
  IF s = << >> THEN 0
  ELSE 10 * ParseDigits(SubSeq(s, 1, Len(s) - 1)) + DigitVal(s[Len(s)])

NumberOf(x) ==
  CASE x.t = "number" -> [nan |-> FALSE, n |-> x.v]
    [] x.t = "string" /\ \A i \in 1..Len(x.v) : IsDigit(x.v[i]) ->
         [nan |-> FALSE, n |-> ParseDigits(x.v)]
    [] OTHER -> NaN

\* String(x) of a natural number, a string and undefined.
RECURSIVE DigitsOf(_)
DigitsOf(n) ==
  IF n < 10 THEN << DigitChars[n + 1] >>
  ELSE Append(DigitsOf(n \div 10), DigitChars[(n % 10) + 1])

StringOf(x) ==
  CASE x.t = "number" -> DigitsOf(x.v)
    [] x.t = "string" -> x.v
    [] OTHER -> <<"u", "n", "d", "e", "f", "i", "n", "e", "d">>

\* x === y
StrictEquals(x, y) == x.t = y.t /\ (x.t = "undefined" \/ x.v = y.v)

\* A comparison with NaN on either side is false.
evaluateCondition(value, operator, compareValue) ==
  CASE operator = "equals"       -> StrictEquals(value, compareValue)
    [] operator = "contains"     ->
         Includes(toLowerCase(StringOf(value)), toLowerCase(StringOf(compareValue)))
    [] operator = "greater_than" ->
         /\ ~NumberOf(value).nan /\ ~NumberOf(compareValue).nan
         /\ NumberOf(value).n > NumberOf(compareValue).n
    [] operator = "less_than"    ->
         /\ ~NumberOf(value).nan /\ ~NumberOf(compareValue).nan
         /\ NumberOf(value).n < NumberOf(compareValue).n
    [] OTHER                     -> FALSE

\* The list executeConditionAction walks: true_actions or false_actions.
actionsToExecute(action, contact) ==
  IF evaluateCondition(getContactFieldValue(contact, action.config.field),
                       action.config.operator, action.config.value)
    THEN action.config.true_actions
    ELSE action.config.false_actions

\* The actions one call of executeAction enters, in order: the action itself
\* and, for a condition, what executeAction enters for each id of the chosen
\* list that names an action of the automation.
RECURSIVE Executed(_, _, _)
RECURSIVE ExecutedList(_, _, _)
Executed(a, action, contact) ==
  IF action.type = "condition" /\ ~ActionThrows(action)
    THEN << action >> \o ExecutedList(a, actionsToExecute(action, contact), contact)
    ELSE << action >>

ExecutedList(a, ids, contact) ==
  IF ids = << >> THEN << >>
  ELSE (IF FindAction(a, Head(ids)) = 0 THEN << >>
        ELSE Executed(a, Automations[a].actions[FindAction(a, Head(ids))], contact))
       \o ExecutedList(a, Tail(ids), contact)

\* The effects of the actions entered, up to the first one that throws:
\* the contact object, the contacts table, the jobs handed to addJob and the
\* ids of the actions executed.
RECURSIVE RunActions(_, _, _)
RunActions(a, acts, st) ==
  IF acts = << >> THEN st
  ELSE IF ActionThrows(Head(acts)) THEN [st EXCEPT !.failed = TRUE]
  ELSE RunActions(a, Tail(acts),
         [ contact |-> ContactAfter(Head(acts), st.contact),
           store   |-> StoreAfter(st.store, Head(acts), st.contact),
           js      |-> st.js \o ActionJobs(a, Head(acts), st.contact),
           trace   |-> Append(st.trace, Head(acts).id),
           failed  |-> FALSE ])

\* The outcome of the HTTP calls of the webhook actions entered: each call of
\* one turn of the loop succeeds (TRUE) or fails (FALSE).
IsWebhook(action) == action.type = "webhook"

WebhookOutcomes(acts) ==
  IF SelectSeq(acts, IsWebhook) = << >> THEN {TRUE} ELSE BOOLEAN

\* Variant: the catch of executeWebhookAction throws the error on.
WebhookAborts_Rethrows(acts, ok) == SelectSeq(acts, IsWebhook) # << >> /\ ~ok

\* executeWebhookAction catches and logs every error of the call.
WebhookAborts(acts, ok) == FALSE

WebhookLog(acts, ok) ==
  [i \in 1..Len(SelectSeq(acts, IsWebhook)) |->
     [action_id |-> SelectSeq(acts, IsWebhook)[i].id, ok |-> ok]]

\* executeAutomation is called for automation a and a contact read from the
\* store, while fewer than `limit` calls have been made.
BeginWalk(a, c, limit) ==
  /\ Len(walks) < limit
  /\ now < Horizon
  /\ walks' = Append(walks, [automation |-> a, pos |-> 1, trace |-> << >>,
                             contact |-> [id |-> c, tags |-> contactStore[c]],
                             state |-> "running", event |-> 0, webhooks |-> << >>,
                             frames |-> << >>, depth |-> 0])
  /\ UNCHANGED <<contactStore, analytics>>
  /\ UNCHANGED rvars
  /\ UNCHANGED qvars

StartWalk(a, c) == BeginWalk(a, c, MaxWalks)

\* One turn of the loop of executeAutomation: executeAction on the next action
\* of the array.  If an action throws, the catch of executeAutomation logs the
\* error and throws it on: the walk is over.
WalkStep(w) ==
  /\ w \in DOMAIN walks
  /\ walks[w].state = "running"
  /\ walks[w].pos <= Len(Automations[walks[w].automation].actions)
  /\ LET a      == walks[w].automation
         action == Automations[a].actions[walks[w].pos]
         acts   == Executed(a, action, walks[w].contact)
         r      == RunActions(a, acts,
                     [contact |-> walks[w].contact, store |-> contactStore,
                      js |-> << >>, trace |-> walks[w].trace, failed |-> FALSE])
     IN \E ok \in WebhookOutcomes(acts) :
        /\ jobs' = SweepHeap(jobs, r.js)
        /\ queues' = SweepQueues(jobs, queues, r.js)
        /\ contactStore' = r.store
        /\ walks' = [walks EXCEPT
              ![w].pos = IF r.failed \/ WebhookAborts(acts, ok) THEN @ ELSE @ + 1,
              ![w].trace = r.trace,
              ![w].contact = r.contact,
              ![w].webhooks = @ \o WebhookLog(acts, ok),
              ![w].state = IF r.failed \/ WebhookAborts(acts, ok) THEN "aborted" ELSE @]
  /\ UNCHANGED <<now, processing, workers, intervals, batches, retryTimers, analytics, emitted, clearedJobs>>
  /\ UNCHANGED rvars

\* The calls of one walk that are in progress.  `frames` holds, innermost
\* last, the ids each loop of executeConditionAction has still to go through;
\* `depth` counts the calls entered one inside the other since the last await
\* that was resumed.  A loop with no id left only waits for the call it made:
\* its promise stays on the heap of the program and is not kept here.
Top(fr) == fr[Len(fr)]
Pop(fr) == SubSeq(fr, 1, Len(fr) - 1)
Push(fr, ids) == (IF fr # << >> /\ Top(fr) = << >> THEN Pop(fr) ELSE fr) \o << ids >>

\* executeAction(action, contact, automation), where `fr` are the loops that
\* wait for it.  A condition starts the loop over its list, inside the call; an
\* action that throws, the runtime's RangeError included, ends the walk in the
\* catch of executeAutomation; any other action takes effect and is awaited.
EnterAction(w, action, fr) ==
  LET a == walks[w].automation
      r == RunActions(a, << action >>,
             [contact |-> walks[w].contact, store |-> contactStore,
              js |-> << >>, trace |-> walks[w].trace, failed |-> FALSE])
  IN IF ActionThrows(action) \/ (action.type = "condition" /\ walks[w].depth >= MaxDepth)
       THEN /\ walks' = [walks EXCEPT ![w].state = "aborted"]
            /\ UNCHANGED <<jobs, queues, contactStore>>
       ELSE IF action.type = "condition"
       THEN /\ walks' = [walks EXCEPT
                  ![w].frames = Push(fr, actionsToExecute(action, walks[w].contact)),
                  ![w].depth = @ + 1]
            /\ UNCHANGED <<jobs, queues, contactStore>>
       ELSE \E ok \in WebhookOutcomes(<< action >>) :
            /\ jobs' = SweepHeap(jobs, r.js)
            /\ queues' = SweepQueues(jobs, queues, r.js)
            /\ contactStore' = r.store
            /\ walks' = [walks EXCEPT
                  ![w].frames = fr,
                  ![w].depth = 0,
                  ![w].contact = r.contact,
                  ![w].webhooks = @ \o WebhookLog(<< action >>, ok),
                  ![w].pos = IF fr = << >> THEN @ + 1 ELSE @]

\* One call of executeAction of a walk, or one return from a loop of
\* executeConditionAction: the next action of the array when no call is in
\* progress, otherwise the next id of the innermost loop (an id that names no
\* action of the automation is passed over).
CallStep(w) ==
  /\ w \in DOMAIN walks
  /\ walks[w].state = "running"
  /\ LET a  == walks[w].automation
         fr == walks[w].frames
     IN IF fr = << >>
          THEN /\ walks[w].pos <= Len(Automations[a].actions)
               /\ EnterAction(w, Automations[a].actions[walks[w].pos], << >>)
          ELSE IF Top(fr) = << >>
          THEN /\ walks' = [walks EXCEPT
                     ![w].frames = Pop(fr),
                     ![w].depth = 0,
                     ![w].pos = IF Pop(fr) = << >> THEN @ + 1 ELSE @]
               /\ UNCHANGED <<jobs, queues, contactStore>>
          ELSE LET id   == Head(Top(fr))
                   rest == Append(Pop(fr), Tail(Top(fr)))
               IN IF FindAction(a, id) = 0
                    THEN /\ walks' = [walks EXCEPT ![w].frames = rest]
                         /\ UNCHANGED <<jobs, queues, contactStore>>
                    ELSE EnterAction(w, Automations[a].actions[FindAction(a, id)], rest)
  /\ UNCHANGED <<now, processing, workers, intervals, batches, retryTimers, analytics, emitted, clearedJobs>>
  /\ UNCHANGED rvars

\* The loop is over: the execution is recorded.
WalkFinish(w) ==
  /\ w \in DOMAIN walks
  /\ walks[w].state = "running"
  /\ walks[w].pos > Len(Automations[walks[w].automation].actions)
  /\ walks[w].frames = << >>
  /\ walks' = [walks EXCEPT ![w].state = "done"]
  /\ analytics' = analytics \cup
       {[event |-> "automation_executed", automation_id |-> walks[w].automation,
         contact_id |-> walks[w].contact.id]}
  /\ UNCHANGED contactStore
  /\ UNCHANGED rvars
  /\ UNCHANGED qvars

(***************************************************************************)
(* The automations table and the management operations of the controller   *)
(* (src/src/controller/automationController.ts).  None of them touches the *)
(* engine: the Map activeAutomations is written by loadActiveAutomations   *)
(* only, which the constructor calls once.                                 *)
(***************************************************************************)
\* The ids of a set in ascending order (the order of the rows of a table).
RECURSIVE SeqOf(_)
SeqOf(S) ==
  IF S = {} THEN << >>
  ELSE LET m == CHOOSE x \in S : \A y \in S : x <= y
       IN << m >> \o SeqOf(S \ {m})

\* automationRepository.findActiveByTriggerType
findActiveByTriggerType(triggerType) ==
  SeqOf({a \in AutomationIds : /\ automationTable[a] = "active"
                               /\ Automations[a].trigger_type = triggerType})

\* The trigger types loadActiveAutomations asks the repository for, in order.
LoadedTypes == <<"keyword", "webhook", "schedule">>

RECURSIVE LoadAll(_)
LoadAll(types) ==
  IF types = << >> THEN << >>
  ELSE findActiveByTriggerType(Head(types)) \o LoadAll(Tail(types))

\* The promise of loadActiveAutomations resolves: every row found is set in
\* the (empty) Map.
loadActiveAutomations ==
  /\ loading
  /\ loading' = FALSE
  /\ activeAutomations' = LoadAll(LoadedTypes)
  /\ auditLog' = auditLog \cup
       {[op |-> "loaded", automation |-> 0, events |-> Len(events), jobs |-> Len(jobs)]}
  /\ UNCHANGED <<walks, contactStore, analytics, automationTable, events>>
  /\ UNCHANGED qvars

\* createAutomation: saveAutomation inserts the row (is_active defaults to true).
createAutomation(a) ==
  /\ automationTable[a] = "absent"
  /\ \A l \in auditLog : l.automation # a
  /\ automationTable' = [automationTable EXCEPT ![a] = "active"]
  /\ auditLog' = auditLog \cup
       {[op |-> "created", automation |-> a, events |-> Len(events), jobs |-> Len(jobs)]}
  /\ UNCHANGED <<walks, contactStore, analytics, activeAutomations, loading, events>>
  /\ UNCHANGED qvars

\* deleteAutomation: deleteAutomationById destroys the row.
deleteAutomation(a) ==
  /\ automationTable[a] # "absent"
  /\ automationTable' = [automationTable EXCEPT ![a] = "absent"]
  /\ auditLog' = auditLog \cup
       {[op |-> "deleted", automation |-> a, events |-> Len(events), jobs |-> Len(jobs)]}
  /\ UNCHANGED <<walks, contactStore, analytics, activeAutomations, loading, events>>
  /\ UNCHANGED qvars

(***************************************************************************)
(* Trigger evaluation: processIncomingMessage, triggerAutomations,         *)
(* shouldTriggerAutomation.                                                *)
(***************************************************************************)
\* triggerConfig.keywords || []
KeywordsOf(triggerConfig) ==
  IF "keywords" \in DOMAIN triggerConfig THEN triggerConfig.keywords ELSE << >>

\* Variant: the content and the keywords are compared as they are.
checkKeywordTrigger_CaseSensitive(triggerConfig, messageContent) ==
  \E i \in 1..Len(KeywordsOf(triggerConfig)) :
    Includes(messageContent, KeywordsOf(triggerConfig)[i])

checkKeywordTrigger(triggerConfig, messageContent) ==
  \E i \in 1..Len(KeywordsOf(triggerConfig)) :
    Includes(toLowerCase(messageContent), toLowerCase(KeywordsOf(triggerConfig)[i]))

checkButtonClickTrigger(triggerConfig, messageContent) ==
  StartsWith(messageContent, ButtonPrefix)

\* No automation of the model has trigger conditions: checkFlowStartTrigger
\* with an empty `conditions` object.
checkFlowStartTrigger(triggerConfig, contact) == TRUE

shouldTriggerAutomation(a, contact, messageContent) ==
  CASE Automations[a].trigger_type = "keyword" ->
         checkKeywordTrigger(Automations[a].trigger_config, messageContent)
    [] Automations[a].trigger_type = "button_click" ->
         checkButtonClickTrigger(Automations[a].trigger_config, messageContent)
    [] Automations[a].trigger_type = "flow_start" ->
         checkFlowStartTrigger(Automations[a].trigger_config, contact)
    [] OTHER -> FALSE

\* The inbound messages: "ah Oi!" from a contact of user 1 and of user 2, and the
\* payload of a button "x" from a contact of user 1.
MsgOi == <<"a", "h", " ", "O", "i", "!">>
MsgButton == ButtonPrefix \o <<"x">>

EventInputs ==
  { [user_id |-> 1, contact_id |-> 1, content |-> MsgOi],
    [user_id |-> 2, contact_id |-> 2, content |-> MsgOi],
    [user_id |-> 1, contact_id |-> 1, content |-> MsgButton] }

\* Variant: triggerAutomations goes through every automation of the Map.
processIncomingMessage_AllOwners(ev) ==
  /\ Len(events) < MaxEvents
  /\ events' = Append(events,
       [ user_id |-> ev.user_id,
         contact |-> [id |-> ev.contact_id, tags |-> contactStore[ev.contact_id]],
         content |-> ev.content,
         userAutomations |-> activeAutomations,
         next |-> 1, walk |-> 0, state |-> "running" ])
  /\ UNCHANGED <<walks, contactStore, analytics, automationTable, auditLog,
                 activeAutomations, loading>>
  /\ UNCHANGED qvars

\* processIncomingMessage up to the filter of triggerAutomations: the contact
\* is read and the automations of the user are taken from the Map.
processIncomingMessage(ev) ==
  /\ Len(events) < MaxEvents
  /\ events' = Append(events,
       [ user_id |-> ev.user_id,
         contact |-> [id |-> ev.contact_id, tags |-> contactStore[ev.contact_id]],
         content |-> ev.content,
         userAutomations |-> SelectSeq(activeAutomations,
                               LAMBDA a : Automations[a].user_id = ev.user_id),
         next |-> 1, walk |-> 0, state |-> "running" ])
  /\ UNCHANGED <<walks, contactStore, analytics, automationTable, auditLog,
                 activeAutomations, loading>>
  /\ UNCHANGED qvars

\* The contact object of the call, as the walks made for it so far left it.
EventContact(e) ==
  IF events[e].walk = 0 THEN events[e].contact ELSE walks[events[e].walk].contact

WalkSettled(e) ==
  IF events[e].walk = 0 THEN TRUE ELSE walks[events[e].walk].state = "done"

\* One turn of the loop of triggerAutomations: shouldTriggerAutomation, and
\* executeAutomation if it holds.
TriggerNext(e) ==
  /\ e \in DOMAIN events
  /\ events[e].state = "running"
  /\ WalkSettled(e)
  /\ events[e].next <= Len(events[e].userAutomations)
  /\ LET a == events[e].userAutomations[events[e].next]
     IN IF shouldTriggerAutomation(a, EventContact(e), events[e].content)
          THEN /\ walks' = Append(walks,
                     [automation |-> a, pos |-> 1, trace |-> << >>,
                      contact |-> EventContact(e), state |-> "running",
                      event |-> e, webhooks |-> << >>,
                      frames |-> << >>, depth |-> 0])
               /\ events' = [events EXCEPT ![e].next = @ + 1, ![e].walk = Len(walks) + 1]
          ELSE /\ events' = [events EXCEPT ![e].next = @ + 1]
               /\ UNCHANGED walks
  /\ UNCHANGED <<contactStore, analytics, automationTable, auditLog,
                 activeAutomations, loading>>
  /\ UNCHANGED qvars

\* The loop is over: the message is recorded and the call returns.
EventDone(e) ==
  /\ e \in DOMAIN events
  /\ events[e].state = "running"
  /\ WalkSettled(e)
  /\ events[e].next > Len(events[e].userAutomations)
  /\ events' = [events EXCEPT ![e].state = "done"]
  /\ analytics' = analytics \cup
       {[event |-> "message_received", automation_id |-> 0,
         contact_id |-> events[e].contact.id]}
  /\ UNCHANGED <<walks, contactStore, automationTable, auditLog,
                 activeAutomations, loading>>
  /\ UNCHANGED qvars

\* executeAutomation has thrown: triggerAutomations has no handler, and the
\* catch of processIncomingMessage logs the error and throws it on.
EventFail(e) ==
  /\ e \in DOMAIN events
  /\ events[e].state = "running"
  /\ IF events[e].walk = 0 THEN FALSE ELSE walks[events[e].walk].state = "aborted"
  /\ events' = [events EXCEPT ![e].state = "failed"]
  /\ UNCHANGED <<walks, contactStore, analytics, automationTable, auditLog,
                 activeAutomations, loading>>
  /\ UNCHANGED qvars

(***************************************************************************)
(* The state after `new AutomationEngine()`, which makes the QueueManager   *)
(* and calls loadActiveAutomations without awaiting it.                    *)
(***************************************************************************)
InitEngine ==
  /\ now = 0
  /\ jobs = << >>
  /\ queues = [t \in QueueTypes |-> << >>]
  /\ processing = [t \in QueueTypes |-> FALSE]
  /\ workers = QueueTypes
  /\ intervals = [t \in QueueTypes |-> 1]
  /\ batches = {}
  /\ retryTimers = {}
  /\ emitted = {}
  /\ clearedJobs = {}
  /\ walks = << >>
  /\ analytics = {}
  /\ automationTable =
       [a \in AutomationIds |-> IF a \in CreatedLater THEN "absent" ELSE "active"]
  /\ auditLog = {}
  /\ activeAutomations = << >>
  /\ loading = TRUE
  /\ events = << >>

\* The contacts table is empty: contacts are made, without tags, when their
\* first message arrives.
Init ==
  /\ InitEngine
  /\ contactStore = [c \in Contacts |-> << >>]

\* The tags contact 1 may have in the table at startup: none, or those of a
\* contact of the seed.
StoredTags == { << >>, << "cliente" >>, << "cliente", "vip" >>, << "lead", "interessado" >> }

TagInit ==
  /\ InitEngine
  /\ \E tags \in StoredTags :
       contactStore = [c \in Contacts |-> IF c = 1 THEN tags ELSE << >>]

Dispatch ==
  \/ \E t \in QueueTypes : DispatchTick(t)
  \/ \E b \in batches : \E j \in Range(b.jobs) : JobFinish(b, j)
  \/ \E b \in batches : BatchDone(b)
  \/ \E tm \in retryTimers : RetryTimerFire(tm)
  \/ processScheduledJobs
  \/ AdvanceTime

Arrivals ==
  \/ \E job \in JobInputs : AddJob(job)
  \/ \E job \in FutureJobInputs : AddJob(job)

Admin ==
  \/ \E t \in {"send_message"} : pauseQueue(t)
  \/ \E t \in {"send_message"} : resumeQueue(t)
  \/ \E t \in {"send_message"} : ClearUnobserved(t)
  \/ destroy

Next == Dispatch \/ Arrivals

Spec == Init /\ [][Next]_vars

Engine ==
  \/ \E a \in DelayExampleIds : \E c \in ExampleContacts(a) : StartWalk(a, c)
  \/ \E w \in 1..MaxWalks : WalkStep(w)
  \/ \E w \in 1..MaxWalks : WalkFinish(w)

\* No job of the engine fails, so no retry timer is ever set here.
EngineDispatch ==
  \/ \E t \in QueueTypes : DispatchTick(t)
  \/ \E b \in batches : \E j \in Range(b.jobs) : JobFinish(b, j)
  \/ \E b \in batches : BatchDone(b)
  \/ processScheduledJobs
  \/ AdvanceTime

NextEngine == EngineDispatch \/ Engine

EngineSpec == Init /\ [][NextEngine]_vars

AdminArrivals == \E job \in AdminJobInputs : AddAdminJob(job)

NextAdmin == Dispatch \/ AdminArrivals \/ Admin

RetryArrivals == \E job \in RetryJobInputs : AddRetryJob(job)

NextBackoff == Dispatch \/ RetryArrivals

BackoffSpec == Init /\ [][NextBackoff]_vars

OutcomeArrivals == \E job \in OutcomeJobInputs : AddRetryJob(job)

NextOutcome == Dispatch \/ OutcomeArrivals

OutcomeSpec == Init /\ [][NextOutcome]_vars

\* The polling intervals keep ticking, handlers return, timers fire and the
\* clock advances.
Fairness ==
  /\ \A t \in QueueTypes : WF_vars(DispatchTick(t))
  /\ WF_vars(\E b \in batches : \E j \in Range(b.jobs) : JobFinish(b, j))
  /\ WF_vars(\E b \in batches : BatchDone(b))
  /\ WF_vars(\E tm \in retryTimers : RetryTimerFire(tm))
  /\ WF_vars(AdvanceTime)

FairBackoffSpec == BackoffSpec /\ Fairness

AdminSpec == Init /\ [][NextAdmin]_vars

\* Queues paused and resumed at any moment, and nothing else of the
\* management methods.
PauseResume ==
  \/ \E t \in {"send_message"} : pauseQueue(t)
  \/ \E t \in {"send_message"} : resumeQueue(t)

PauseArrivals == \E job \in PauseJobInputs : AddAdminJob(job)

NextPause == Dispatch \/ PauseArrivals \/ PauseResume

FairPauseSpec == Init /\ [][NextPause]_vars /\ Fairness

\* clearQueue called at any moment, each call observed: the jobs added to the
\* type so far are noted.
JobsOfType(t) == {j \in DOMAIN jobs : jobs[j].job_type = t}

ClearObserved(t) ==
  /\ clearQueue(t)
  /\ clearedJobs' = clearedJobs \cup JobsOfType(t)

NextClear ==
  \/ Dispatch
  \/ PauseArrivals
  \/ \E t \in {"send_message"} : ClearObserved(t)

ClearSpec == Init /\ [][NextClear]_vars

\* Jobs of two types that are due at once, dispatched and retried, with the
\* queue of one type paused and resumed at any moment.
NextPlaces ==
  \/ Dispatch
  \/ \E job \in PlaceJobInputs : AddAdminJob(job)
  \/ PauseResume

PlacesSpec == Init /\ [][NextPlaces]_vars

\* Jobs keep arriving: the jobs of JobInputs whose handler returns, with
\* priority 1 and 5.  The polling intervals keep ticking and handlers
\* return; the clock stands still, within one second of arrivals.
SteadyJobInputs == {job \in JobInputs : job.job_type = "send_message" /\ job.payload = DataPayload}

SteadyArrivals ==
  \/ \E job \in SteadyJobInputs : AddJob(job)
  \/ \E j \in 1..MaxJobs : \E job \in SteadyJobInputs : AddJobReusing(j, job)

SteadyDispatch ==
  \/ \E t \in QueueTypes : DispatchTick(t)
  \/ \E b \in batches : \E j \in Range(b.jobs) : JobFinish(b, j)
  \/ \E b \in batches : BatchDone(b)

NextSteady == SteadyDispatch \/ SteadyArrivals

SteadyFairness ==
  /\ \A t \in QueueTypes : WF_vars(DispatchTick(t))
  /\ WF_vars(\E b \in batches : \E j \in Range(b.jobs) : JobFinish(b, j))
  /\ WF_vars(\E b \in batches : BatchDone(b))
  /\ WF_vars(\E tm \in retryTimers : RetryTimerFire(tm))

FairSteadySpec == Init /\ [][NextSteady]_vars /\ SteadyFairness

\* Batches of one type, and the manager destroyed at any moment.  No job is
\* retried here, so no retry timer is ever set.
BatchArrivals == \E job \in BatchJobInputs : AddJob(job)

NextTeardown == EngineDispatch \/ BatchArrivals \/ destroy

TeardownSpec == Init /\ [][NextTeardown]_vars

\* Walks of the automation with the zero delay, the dispatch of their
\* continuation jobs, and the deletion of the automation.
Resume ==
  \/ \E a \in ResumeIds : \E c \in Contacts : StartWalk(a, c)
  \/ \E w \in DOMAIN walks : WalkStep(w)
  \/ \E w \in DOMAIN walks : WalkFinish(w)
  \/ \E a \in ResumeIds : deleteAutomation(a)

NextResume == EngineDispatch \/ Resume

ResumeSpec == Init /\ [][NextResume]_vars

\* Walks of the automations with a condition and with a webhook call.
Branch ==
  \/ \E a \in BranchIds : \E c \in Contacts : StartWalk(a, c)
  \/ \E w \in DOMAIN walks : WalkStep(w)
  \/ \E w \in DOMAIN walks : WalkFinish(w)

NextBranch == EngineDispatch \/ Branch

BranchSpec == Init /\ [][NextBranch]_vars

\* Inbound messages against the registry, with automations created and
\* deleted through the controller.
Trigger ==
  \/ loadActiveAutomations
  \/ \E a \in CreatedLater : createAutomation(a)
  \/ \E a \in Deletable : deleteAutomation(a)
  \/ \E ev \in EventInputs : processIncomingMessage(ev)
  \/ \E e \in DOMAIN events : TriggerNext(e)
  \/ \E e \in DOMAIN events : EventDone(e)
  \/ \E e \in DOMAIN events : EventFail(e)
  \/ \E w \in DOMAIN walks : WalkStep(w)
  \/ \E w \in DOMAIN walks : WalkFinish(w)

NextTrigger == Trigger

TriggerSpec == Init /\ [][NextTrigger]_vars

\* Walks of the automations whose condition compares numbers, and the
\* dispatch of their message jobs.
Compare ==
  \/ \E a \in CompareIds : \E c \in Contacts : StartWalk(a, c)
  \/ \E w \in DOMAIN walks : WalkStep(w)
  \/ \E w \in DOMAIN walks : WalkFinish(w)

NextCompare == EngineDispatch \/ Compare

CompareSpec == Init /\ [][NextCompare]_vars

\* Walks of the tag automations on contact 1, side by side.
TagWalks ==
  \/ \E a \in TagIds : \E c \in ExampleContacts(a) : BeginWalk(a, c, MaxTagWalks)
  \/ \E w \in DOMAIN walks : WalkStep(w)
  \/ \E w \in DOMAIN walks : WalkFinish(w)

NextTags == TagWalks

TagSpec == TagInit /\ [][NextTags]_vars

\* Calls of executeAutomation for the automations whose conditions lead back
\* to themselves, followed call by call.  Every call that is in progress goes
\* on: the runtime resumes each await whose promise is settled.
CycleWalks ==
  \/ \E a \in CycleIds : \E c \in Contacts : BeginWalk(a, c, MaxTagWalks)
  \/ \E w \in DOMAIN walks : CallStep(w)
  \/ \E w \in DOMAIN walks : WalkFinish(w)

NextCycle == CycleWalks

CycleFairness ==
  \A w \in 1..MaxTagWalks : WF_vars(CallStep(w)) /\ WF_vars(WalkFinish(w))

FairCycleSpec == Init /\ [][NextCycle]_vars /\ CycleFairness

(***************************************************************************)
(* Helpers of the properties.                                              *)
(***************************************************************************)
InQueue(j) == \E t \in DOMAIN queues : j \in Range(queues[t])

OnTimer(j) == \E tm \in retryTimers : tm.job = j

InFlight(j) == \E b \in batches : j \in Range(b.jobs) \ b.settled

AlwaysFails(j) == j \in JobIds /\ HandlerThrows(jobs[j])

FailedAfterAll(j) ==
  /\ j \in JobIds
  /\ jobs[j].status = "failed"
  /\ jobs[j].attempts = jobs[j].max_attempts

PosIn(q, j) == CHOOSE i \in 1..Len(q) : q[i] = j

(***************************************************************************)
(* C1: a job with max_attempts = N whose handler fails on every attempt is *)
(* processed exactly N times: it never has more than N attempts, it is not *)
(* given up before the N-th, it ends failed (under the fair scheduling of  *)
(* ticks and timers), and once failed it sits in no queue, on no timer and *)
(* in no batch and is never touched again.                                 *)
(***************************************************************************)
C1_FailedShape ==
  \A j \in JobIds : HandlerThrows(jobs[j]) =>
    /\ jobs[j].attempts <= jobs[j].max_attempts
    /\ jobs[j].status = "failed" =>
         /\ jobs[j].attempts = jobs[j].max_attempts
         /\ ~InQueue(j) /\ ~OnTimer(j) /\ ~InFlight(j)
    /\ jobs[j].attempts = jobs[j].max_attempts =>
         jobs[j].status \in {"processing", "failed"}

C1_FailedForGood ==
  \A j \in JobIds : jobs[j].status = "failed" =>
    /\ jobs'[j] = jobs[j]
    /\ ~InQueue(j)' /\ ~OnTimer(j)' /\ ~InFlight(j)'

C1_ExactlyNAttempts ==
  /\ []C1_FailedShape
  /\ [][C1_FailedForGood]_vars
  /\ \A j \in 1..MaxRetryJobs :
       AlwaysFails(j) ~> FailedAfterAll(j)

C1_Witness ==
  \E j \in JobIds :
    /\ HandlerThrows(jobs[j])
    /\ jobs[j].status = "failed"
    /\ jobs[j].max_attempts = 5 /\ jobs[j].attempts = 5

(***************************************************************************)
(* C2: a job's status moves only pending -> processing and processing ->   *)
(* completed, pending (retry) or failed; completed and failed are final;   *)
(* a new job starts pending.  Checked with pauseQueue, resumeQueue,        *)
(* clearQueue and destroy interleaved.                                     *)
(***************************************************************************)
StatusMove(old, new) ==
  \/ new = old
  \/ old = "pending" /\ new = "processing"
  \/ old = "processing" /\ new \in {"completed", "pending", "failed"}

C2_StatusStep ==
  /\ \A j \in JobIds : j \in DOMAIN jobs' /\ StatusMove(jobs[j].status, jobs'[j].status)
  /\ \A j \in DOMAIN jobs' \ JobIds : jobs'[j].status = "pending"

C2_StatusTransitions == [][C2_StatusStep]_vars

C2_Witness ==
  /\ "send_message" \notin workers
  /\ \E j \in JobIds : jobs[j].status = "completed"
  /\ \E j \in JobIds : jobs[j].status = "failed" /\ jobs[j].attempts = maxRetries

(***************************************************************************)
(* C3: every job has attempts <= max_attempts in every reachable state.    *)
(***************************************************************************)
C3_AttemptsBounded == \A j \in JobIds : jobs[j].attempts <= jobs[j].max_attempts

C3_Witness ==
  /\ \E j \in JobIds : jobs[j].max_attempts = maxRetries /\ jobs[j].attempts = maxRetries
  /\ \E j \in JobIds : jobs[j].max_attempts = 1 /\ jobs[j].attempts = 1

(***************************************************************************)
(* C4: a job that fails its k-th attempt with k < max_attempts waits on a  *)
(* timer of exactly min(base * 2^(k-1), cap): base and 2*base for the      *)
(* first two retries, never more than cap; the timer is set to the time of *)
(* the failure plus that delay and the job re-enters its queue no earlier. *)
(***************************************************************************)
C4_TimerDelay ==
  \A tm \in retryTimers :
    LET k == jobs[tm.job].attempts
    IN /\ k < jobs[tm.job].max_attempts
       /\ tm.delay = Min(retryDelay * 2^(k - 1), RetryCap)
       /\ tm.delay <= RetryCap
       /\ k = 1 => tm.delay = retryDelay
       /\ k = 2 => tm.delay = 2 * retryDelay

C4_TimerStep ==
  /\ \A tm \in retryTimers' \ retryTimers :
       /\ tm.due = now + tm.delay
       /\ jobs[tm.job].status = "processing" /\ jobs'[tm.job].status = "pending"
  /\ \A tm \in retryTimers \ retryTimers' :
       /\ now >= tm.due
       /\ InQueue(tm.job)'
  /\ \A j \in JobIds : (jobs[j].attempts > 0 /\ ~InQueue(j) /\ InQueue(j)') =>
       \E tm \in retryTimers \ retryTimers' : tm.job = j

C5_Sorted ==
  \A t \in DOMAIN queues : \A i \in 1..Len(queues[t]) : \A k \in 1..Len(queues[t]) :
    i < k => jobs[queues[t][i]].priority >= jobs[queues[t][k]].priority

C5_StableStep ==
  \A t \in DOMAIN queues \cap DOMAIN queues' :
    LET q == queues[t]
        r == queues'[t]
    IN \/ r = q
       \/ /\ \A x \in Range(q) \cap Range(r) : \A y \in Range(q) \cap Range(r) :
               PosIn(q, x) < PosIn(q, y) => PosIn(r, x) < PosIn(r, y)
          /\ \A x \in Range(r) \ Range(q) : \A y \in Range(q) \cap Range(r) :
               jobs'[y].priority = jobs'[x].priority => PosIn(r, y) < PosIn(r, x)

C5_PriorityOrderStable == []C5_Sorted /\ [][C5_StableStep]_vars

C5_Witness ==
  \E t \in DOMAIN queues :
    /\ Len(queues[t]) = 3
    /\ jobs[queues[t][1]].priority = jobs[queues[t][2]].priority
    /\ jobs[queues[t][2]].priority > jobs[queues[t][3]].priority
    /\ jobs[queues[t][2]].attempts > 0
    /\ jobs[queues[t][1]].attempts = 0
    /\ queues[t][2] < queues[t][1]

(***************************************************************************)
(* C6: a dispatch tick takes the first min(maxConcurrent, length) jobs of  *)
(* the queue, in queue order, and leaves the rest; no job left behind has  *)
(* a strictly higher priority than a job of the batch; jobs added with     *)
(* priorities 1 then 5 are started in the order 5, 1.                      *)
(***************************************************************************)
C6_BatchStep ==
  \A b \in batches' \ batches : b.settled = {} =>
    LET q == queues[b.queueType]
        n == IF Len(q) < maxConcurrent THEN Len(q) ELSE maxConcurrent
    IN /\ n >= 1
       /\ Len(b.jobs) = n
       /\ \A i \in 1..n : b.jobs[i] = q[i]
       /\ queues'[b.queueType] = [i \in 1..(Len(q) - n) |-> q[n + i]]
       /\ \A i \in 1..n : jobs'[b.jobs[i]].status = "processing"
       /\ \A i \in 1..n : \A k \in 1..n :
            i < k => jobs[b.jobs[i]].priority >= jobs[b.jobs[k]].priority
       /\ \A i \in 1..n : \A x \in Range(queues'[b.queueType]) :
            jobs[x].priority <= jobs[b.jobs[i]].priority

C6_BatchFromHead == [][C6_BatchStep]_vars

C6_Witness ==
  \E b \in batches :
    /\ Len(b.jobs) = 2
    /\ jobs[b.jobs[1]].priority = 5 /\ jobs[b.jobs[2]].priority = 1
    /\ b.jobs[2] < b.jobs[1]
    /\ jobs[b.jobs[1]].attempts = 1 /\ jobs[b.jobs[2]].attempts = 1
    /\ Len(queues[b.queueType]) = 1

(***************************************************************************)
(* C7: a job whose scheduled_at is still in the future is in no queue and  *)
(* no batch and has never been dispatched.                                 *)
(***************************************************************************)
C7_NotBeforeScheduledAt ==
  \A j \in JobIds : jobs[j].scheduled_at > now =>
    /\ ~InQueue(j)
    /\ \A b \in batches : j \notin Range(b.jobs)
    /\ jobs[j].status = "pending"
    /\ jobs[j].attempts = 0

C7_Witness ==
  /\ \E j \in JobIds : jobs[j].scheduled_at > now
  /\ \E j \in JobIds : jobs[j].scheduled_at = now /\ InQueue(j)

(***************************************************************************)
(* C8: a job added with a future scheduled_at is retained in the delayed   *)
(* set, from which the sweep moves it to its queue once it is due.         *)
(***************************************************************************)
C8_DelayedJobRetained ==
  \A j \in JobIds : jobs[j].scheduled_at > now =>
    \E i \in 1..Len(getScheduledJobs(jobs[j].scheduled_at)) :
      getScheduledJobs(jobs[j].scheduled_at)[i] = jobs[j]

(***************************************************************************)
(* C9: executing a delay action of duration d and unit u whose             *)
(* next_action_id names an action of the automation hands exactly one job  *)
(* to addJob: an automation_action job scheduled at the current time plus  *)
(* d times the unit, carrying the automation id, the contact id and the    *)
(* next action id; a delay action without next_action_id adds no job.      *)
(***************************************************************************)
UnitMs(u) ==
  CASE u = "seconds" -> 1000
    [] u = "minutes" -> 60000
    [] u = "hours"   -> 3600000
    [] u = "days"    -> 86400000

C9_DelayStep ==
  \A w \in DOMAIN walks : walks'[w].pos = walks[w].pos + 1 =>
    LET a   == walks[w].automation
        act == Automations[a].actions[walks[w].pos]
    IN act.type = "delay" =>
         /\ (act.next_action_id # "" /\ FindAction(a, act.next_action_id) # 0) =>
              /\ Len(jobs') = Len(jobs) + 1
              /\ SubSeq(jobs', 1, Len(jobs)) = jobs
              /\ LET job == jobs'[Len(jobs')]
                 IN /\ job.job_type = "automation_action"
                    /\ job.status = "pending" /\ job.attempts = 0
                    /\ job.scheduled_at = now + act.config.duration * UnitMs(act.config.unit)
                    /\ job.payload.automation_id = a
                    /\ job.payload.contact_id = walks[w].contact.id
                    /\ job.payload.action_id = act.next_action_id
         /\ act.next_action_id = "" => jobs' = jobs

C9_DelayContinuationJob == [][C9_DelayStep]_vars

\* The walk of automation 3 has passed its three delay actions (no successor,
\* dangling successor, successor "4" in one day): one job, for action "4".
C9_Witness ==
  \E w \in DOMAIN walks :
    /\ walks[w].automation = 3 /\ walks[w].pos = 4 /\ walks[w].contact.id = 2
    /\ Len(jobs) = 1
    /\ jobs[1].job_type = "automation_action"
    /\ jobs[1].payload = [kind |-> "continuation", automation_id |-> 3,
                          action_id |-> "4", contact_id |-> 2]
    /\ jobs[1].scheduled_at = 86400000
    /\ now = 0

(***************************************************************************)
(* C10: once a walk has executed a delay action that has a next_action_id, *)
(* it executes no further action until the continuation job has been       *)
(* dispatched.                                                             *)
(***************************************************************************)
ContinuationDispatched(a, c, id) ==
  \E j \in JobIds :
    /\ jobs[j].job_type = "automation_action"
    /\ jobs[j].payload = [kind |-> "continuation", automation_id |-> a,
                          action_id |-> id, contact_id |-> c]
    /\ jobs[j].attempts > 0

C10_DelaySuspendsWalk ==
  \A w \in DOMAIN walks : \A i \in 1..Len(walks[w].trace) :
    LET a   == walks[w].automation
        act == Automations[a].actions[FindAction(a, walks[w].trace[i])]
    IN (act.type = "delay" /\ act.next_action_id # "" /\ i < Len(walks[w].trace)) =>
         ContinuationDispatched(a, walks[w].contact.id, act.next_action_id)

(***************************************************************************)
(* C11: when the handler of a continuation (automation_action) job returns *)
(* and the automation is still active, the action whose id the payload     *)
(* holds has been executed for the contact of the payload: a walk of that  *)
(* automation for that contact, new or existing, has gone on with it.      *)
(***************************************************************************)
ActionOf(a, id) == Automations[a].actions[FindAction(a, id)]

TraceBefore(w) == IF w \in DOMAIN walks THEN walks[w].trace ELSE << >>

C11_ResumeStep ==
  \A j \in JobIds :
    (/\ jobs[j].job_type = "automation_action"
     /\ jobs[j].status = "processing"
     /\ jobs'[j].status = "completed"
     /\ automationTable[jobs[j].payload.automation_id] = "active") =>
      \E w \in DOMAIN walks' :
        /\ walks'[w].automation = jobs[j].payload.automation_id
        /\ walks'[w].contact.id = jobs[j].payload.contact_id
        /\ Len(walks'[w].trace) > Len(TraceBefore(w))
        /\ walks'[w].trace[Len(TraceBefore(w)) + 1] = jobs[j].payload.action_id

C11_ContinuationResumes == [][C11_ResumeStep]_vars

(***************************************************************************)
(* C12: when a continuation job is dispatched whose automation has been    *)
(* deleted or is no longer active, its handler executes no action (no walk *)
(* moves or starts, the contacts are untouched, no job is added) and the   *)
(* job ends completed: it is not handed to a retry timer, does not         *)
(* re-enter a queue and does not end failed.                               *)
(***************************************************************************)
AutomationGone(a) == automationTable[a] # "active"

IsContinuation(j) == jobs[j].job_type = "automation_action"

C12_Dropped ==
  \A j \in JobIds :
    (/\ IsContinuation(j)
     /\ AutomationGone(jobs[j].payload.automation_id)
     /\ jobs[j].attempts > 0
     /\ jobs[j].status # "processing") =>
      /\ jobs[j].status = "completed"
      /\ jobs[j].attempts = 1
      /\ ~InQueue(j) /\ ~OnTimer(j)

C12_DropStep ==
  \A j \in JobIds :
    (/\ IsContinuation(j)
     /\ AutomationGone(jobs[j].payload.automation_id)
     /\ jobs[j].status = "processing"
     /\ jobs'[j].status # "processing") =>
      /\ jobs'[j].status = "completed"
      /\ walks' = walks
      /\ contactStore' = contactStore
      /\ analytics' = analytics
      /\ Len(jobs') = Len(jobs)
      /\ queues' = queues
      /\ retryTimers' = retryTimers

C12_DropsSilently == []C12_Dropped /\ [][C12_DropStep]_vars

\* The automation was deleted before the delay action constructed the job;
\* the job has been dispatched and has completed on its first attempt.
C12_Witness ==
  \E j \in JobIds : \E l \in auditLog :
    /\ IsContinuation(j)
    /\ l.op = "deleted" /\ l.automation = jobs[j].payload.automation_id
    /\ l.jobs < j
    /\ jobs[j].status = "completed" /\ jobs[j].attempts = 1
    /\ Len(walks) = 1 /\ retryTimers = {}

(***************************************************************************)
(* C13: the actions a walk executes follow the next_action_id links: each  *)
(* executed action but the last names the next executed one, so the walk   *)
(* ends at the first executed action without next_action_id and executes   *)
(* no action outside the chain of its first action.                        *)
(***************************************************************************)
C13_WalkFollowsChain ==
  \A w \in DOMAIN walks :
    /\ \A i \in 1..(Len(walks[w].trace) - 1) :
         ActionOf(walks[w].automation, walks[w].trace[i]).next_action_id
           = walks[w].trace[i + 1]
    /\ (walks[w].state = "done" /\ walks[w].trace # << >>) =>
         FindAction(walks[w].automation,
           ActionOf(walks[w].automation,
                    walks[w].trace[Len(walks[w].trace)]).next_action_id) = 0

(***************************************************************************)
(* C14: once a walk has executed a condition action, what it has executed  *)
(* after it is exactly the actions named by the matched list, once each    *)
(* and in list order: nothing named only by the other list, and nothing    *)
(* after the branch.                                                       *)
(***************************************************************************)
RECURSIVE FoundIds(_, _)
FoundIds(a, ids) ==
  IF ids = << >> THEN << >>
  ELSE (IF FindAction(a, Head(ids)) = 0 THEN << >> ELSE << Head(ids) >>)
       \o FoundIds(a, Tail(ids))

C14_BranchOnly ==
  \A w \in DOMAIN walks : \A i \in 1..Len(walks[w].trace) :
    LET a   == walks[w].automation
        act == ActionOf(a, walks[w].trace[i])
    IN act.type = "condition" =>
         SubSeq(walks[w].trace, i + 1, Len(walks[w].trace))
           = FoundIds(a, actionsToExecute(act, walks[w].contact))

(***************************************************************************)
(* C17: an action id that names no action of the automation never throws   *)
(* out of the walk: the walk halts at the action that holds it (it         *)
(* executes nothing further), and no continuation job carries an id that   *)
(* names no action.                                                        *)
(***************************************************************************)
Dangling(a, id) == id # "" /\ FindAction(a, id) = 0

C17_DanglingHalts ==
  /\ \A w \in DOMAIN walks : \A i \in 1..Len(walks[w].trace) :
       Dangling(walks[w].automation,
                ActionOf(walks[w].automation, walks[w].trace[i]).next_action_id) =>
         /\ i = Len(walks[w].trace)
         /\ walks[w].state # "aborted"
  /\ \A j \in JobIds : IsContinuation(j) =>
       FindAction(jobs[j].payload.automation_id, jobs[j].payload.action_id) # 0

(***************************************************************************)
(* C18: the turn of the loop that executes a webhook action ends the same  *)
(* whether the HTTP call succeeded or failed: the walk stays running and   *)
(* moves to the following action, and no job, retry timer or contact is    *)
(* touched; a walk whose call failed still executes every later action.    *)
(***************************************************************************)
HasFailedCall(w) == \E i \in 1..Len(walks[w].webhooks) : ~walks[w].webhooks[i].ok

C18_Continues ==
  \A w \in DOMAIN walks : HasFailedCall(w) =>
    /\ walks[w].state # "aborted"
    /\ walks[w].state = "done" =>
         \A i \in 1..Len(Automations[walks[w].automation].actions) :
           \E k \in 1..Len(walks[w].trace) :
             walks[w].trace[k] = Automations[walks[w].automation].actions[i].id

C18_WebhookStep ==
  \A w \in DOMAIN walks :
    Len(walks'[w].webhooks) > Len(walks[w].webhooks) =>
      /\ walks'[w].state = "running"
      /\ walks'[w].pos = walks[w].pos + 1
      /\ walks'[w].trace =
           Append(walks[w].trace, Automations[walks[w].automation].actions[walks[w].pos].id)
      /\ walks'[w].contact = walks[w].contact
      /\ jobs' = jobs
      /\ queues' = queues
      /\ retryTimers' = retryTimers
      /\ contactStore' = contactStore

C18_WebhookFailureSwallowed == []C18_Continues /\ [][C18_WebhookStep]_vars

\* The call of action "1" failed; the walk went on with action "2", whose
\* message job is the only job there is.
C18_Witness ==
  \E w \in DOMAIN walks :
    /\ walks[w].webhooks = << [action_id |-> "1", ok |-> FALSE] >>
    /\ walks[w].trace = << "1", "2" >>
    /\ walks[w].state = "done"
    /\ Len(jobs) = 1 /\ jobs[1].job_type = "send_message"

(***************************************************************************)
(* C15: a failing action of one matched automation aborts that walk only:  *)
(* no call of processIncomingMessage ends by throwing, and when a call is  *)
(* over every automation of its list that matches the message has had its  *)
(* walk.                                                                   *)
(***************************************************************************)
Finished(e) == events[e].state \in {"done", "failed"}

WalksOf(e, a) == {w \in DOMAIN walks : walks[w].event = e /\ walks[w].automation = a}

Matches(a, e) == shouldTriggerAutomation(a, events[e].contact, events[e].content)

C15_FailureIsolated ==
  \A e \in DOMAIN events : Finished(e) =>
    /\ events[e].state # "failed"
    /\ \A a \in Range(events[e].userAutomations) : Matches(a, e) => WalksOf(e, a) # {}

(***************************************************************************)
(* C16: for every walk that a failing action has aborted there is an       *)
(* analytics event of a failed execution of that automation for that       *)
(* contact, and no automation_executed event.                              *)
(***************************************************************************)
C16_FailedEventRecorded ==
  \A w \in DOMAIN walks : walks[w].state = "aborted" =>
    /\ \E x \in analytics :
         /\ x.event \notin {"automation_executed", "message_received"}
         /\ x.automation_id = walks[w].automation
         /\ x.contact_id = walks[w].contact.id
    /\ ~\E x \in analytics :
         /\ x.event = "automation_executed"
         /\ x.automation_id = walks[w].automation
         /\ x.contact_id = walks[w].contact.id

(***************************************************************************)
(* C19: no walk is started for an automation by a message that was         *)
(* received after the automation had been deleted.                         *)
(***************************************************************************)
DeletedBefore(a, e) ==
  \E l \in auditLog : l.op = "deleted" /\ l.automation = a /\ l.events < e

C19_NoWalkAfterDelete ==
  \A w \in DOMAIN walks :
    walks[w].event # 0 => ~DeletedBefore(walks[w].automation, walks[w].event)

(***************************************************************************)
(* C20: when the call for a message received after startup has returned,   *)
(* each automation of the message's user that was active when the message  *)
(* arrived (stored at startup or created since, and not deleted), has a    *)
(* per-event trigger and matches the message has exactly one walk for that *)
(* message, and the automations that do not match have none.               *)
(***************************************************************************)
AfterStartup(e) == \E l \in auditLog : l.op = "loaded" /\ l.events < e

ActiveFor(a, e) ==
  /\ automationTable[a] = "active"
  /\ \A l \in auditLog : l.automation = a => (l.op = "created" /\ l.events < e)

PerEvent(a) == Automations[a].trigger_type \in {"keyword", "button_click", "flow_start"}

C20_EveryMatchOneWalk ==
  \A e \in DOMAIN events : (events[e].state = "done" /\ AfterStartup(e)) =>
    \A a \in AutomationIds :
      IF /\ Automations[a].user_id = events[e].user_id
         /\ PerEvent(a)
         /\ ActiveFor(a, e)
         /\ Matches(a, e)
        THEN Cardinality(WalksOf(e, a)) = 1
        ELSE Matches(a, e) \/ WalksOf(e, a) = {}


(***************************************************************************)
(* C21: the number of send_message jobs in existence equals the number of  *)
(* send_message actions the walks have executed; each such job was due     *)
(* when it was made (it is in its queue while pending) and carries the id  *)
(* of its automation; and a walk of an automation with the actions         *)
(* [send_message, add_tag(t)] that an inbound message started ends with    *)
(* one message job per such walk and with t among the stored tags of the   *)
(* contact.                                                                *)
(***************************************************************************)
IsSend(a, id) == ActionOf(a, id).type = "send_message"

SendCount(w) ==
  Cardinality({i \in 1..Len(walks[w].trace) : IsSend(walks[w].automation, walks[w].trace[i])})

RECURSIVE TotalSends(_)
TotalSends(n) == IF n = 0 THEN 0 ELSE SendCount(n) + TotalSends(n - 1)

IsMessageJob(j) == jobs[j].job_type = "send_message" /\ jobs[j].payload.kind = "message"

MessageJobs(a, c) ==
  {j \in JobIds : /\ IsMessageJob(j)
                  /\ jobs[j].payload.automation_id = a
                  /\ jobs[j].payload.contact_id = c}

SendThenTag(a) ==
  /\ Len(Automations[a].actions) = 2
  /\ Automations[a].actions[1].type = "send_message"
  /\ Automations[a].actions[2].type = "add_tag"

C21_OneJobPerSend ==
  /\ Cardinality({j \in JobIds : IsMessageJob(j)}) = TotalSends(Len(walks))
  /\ \A j \in JobIds : IsMessageJob(j) =>
       /\ jobs[j].scheduled_at <= now
       /\ jobs[j].status = "pending" => j \in Range(queues["send_message"])
       /\ \E w \in DOMAIN walks :
            /\ walks[w].automation = jobs[j].payload.automation_id
            /\ walks[w].contact.id = jobs[j].payload.contact_id
  /\ \A w \in DOMAIN walks :
       LET a == walks[w].automation
           c == walks[w].contact.id
       IN /\ walks[w].event # 0
          /\ SendThenTag(a)
          /\ walks[w].state = "done"
          => /\ SendCount(w) = 1
             /\ Cardinality(MessageJobs(a, c))
                  = Cardinality({v \in DOMAIN walks : /\ walks[v].automation = a
                                                      /\ walks[v].contact.id = c
                                                      /\ SendCount(v) = 1})
             /\ \E i \in 1..Len(contactStore[c]) :
                  contactStore[c][i] = Automations[a].actions[2].config.tag

\* The message "Oi" of contact 1 has run the welcome automation: one pending
\* message job in the queue, and the tag stored.
C21_Witness ==
  /\ \E w \in DOMAIN walks :
       /\ walks[w].event # 0
       /\ walks[w].automation = 7
       /\ walks[w].state = "done"
  /\ Len(jobs) = 1
  /\ queues["send_message"] = << 1 >>
  /\ jobs[1].payload.automation_id = 7
  /\ contactStore[1] = << "novo_contato" >>


(***************************************************************************)
(* C22: add_tag and remove_tag are idempotent set mutations.  The turn of  *)
(* the loop that executes add_tag(t) leaves t exactly once among the tags  *)
(* of the contact object, the turn that executes remove_tag(t) leaves t    *)
(* absent, neither touches another tag, and add_tag of a present tag and   *)
(* remove_tag of an absent one change neither the object nor the contacts  *)
(* table; on every contact object applying either action twice gives what *)
(* applying it once gives.                                                 *)
(***************************************************************************)
TagNames == {"vip", "cliente", "saudado"}

Count(tags, t) == Cardinality({i \in 1..Len(tags) : tags[i] = t})

AddTag(t) == Act("0", "add_tag", TagCfg(t), "")
RemoveTag(t) == Act("0", "remove_tag", TagCfg(t), "")

C22_Laws ==
  \A w \in DOMAIN walks : \A t \in TagNames :
    LET c == walks[w].contact
    IN /\ ContactAfter(AddTag(t), ContactAfter(AddTag(t), c)) = ContactAfter(AddTag(t), c)
       /\ Count(ContactAfter(AddTag(t), c).tags, t) = 1
       /\ ContactAfter(RemoveTag(t), ContactAfter(RemoveTag(t), c))
            = ContactAfter(RemoveTag(t), c)
       /\ Count(ContactAfter(RemoveTag(t), c).tags, t) = 0
       /\ HasTag(c, t) => ContactAfter(AddTag(t), c) = c
       /\ ~HasTag(c, t) => ContactAfter(RemoveTag(t), c) = c

C22_TagStep ==
  \A w \in DOMAIN walks :
    Len(walks'[w].trace) = Len(walks[w].trace) + 1 =>
      LET act == Automations[walks[w].automation].actions[walks[w].pos]
          t   == act.config.tag
          c   == walks[w].contact
          d   == walks'[w].contact
      IN /\ act.type = "add_tag" =>
              /\ Count(d.tags, t) = 1
              /\ HasTag(c, t) => d = c /\ contactStore' = contactStore
         /\ act.type = "remove_tag" =>
              /\ Count(d.tags, t) = 0
              /\ ~HasTag(c, t) => d = c /\ contactStore' = contactStore
         /\ act.type \in {"add_tag", "remove_tag"} =>
              \A u \in TagNames \ {t} : Count(d.tags, u) = Count(c.tags, u)

C22_TagsIdempotent == []C22_Laws /\ [][C22_TagStep]_vars

\* The walk that adds "vip" twice and removes it twice, for a contact that
\* had the tag: the tag is gone, the other tag is kept.
C22_Witness ==
  \E w \in DOMAIN walks :
    /\ walks[w].automation = 12
    /\ walks[w].trace = << "1", "2", "3", "4" >>
    /\ walks[w].contact.tags = << "cliente" >>
    /\ contactStore[1] = << "cliente" >>


(***************************************************************************)
(* C28: walks on the same contact are not serialized and the last write    *)
(* wins: every write of a walk replaces the stored tags of the contact by  *)
(* the tags of the walk's own contact object, whatever another walk has    *)
(* stored since the object was read; so two walks that each add a          *)
(* different tag can end with only one of the two tags stored.             *)
(***************************************************************************)
C28_WriteStep ==
  \A c \in Contacts : contactStore'[c] # contactStore[c] =>
    \E w \in DOMAIN walks :
      /\ walks'[w] # walks[w]
      /\ walks[w].contact.id = c
      /\ contactStore'[c] = walks'[w].contact.tags

C28_LastWriteWins == [][C28_WriteStep]_vars

\* Both walks are over, each has added its tag to its own object, and the
\* table holds the tag of the second writer only.
C28_Witness ==
  \E v, w \in DOMAIN walks :
    /\ walks[v].automation = 9 /\ walks[v].state = "done"
    /\ walks[w].automation = 10 /\ walks[w].state = "done"
    /\ walks[v].contact.id = walks[w].contact.id
    /\ walks[v].contact.tags = << "saudado" >>
    /\ walks[w].contact.tags = << "clicou" >>
    /\ contactStore[walks[v].contact.id] \in { << "saudado" >>, << "clicou" >> }


(***************************************************************************)
(* C23: greater_than and less_than compare the numeric coercions of both   *)
(* operands, in which an operand that is not numeric (a missing field      *)
(* included) counts as 0: a walk that has executed such a condition has    *)
(* gone on with true_actions exactly if the comparison of the coerced      *)
(* operands holds (a name of a city is less_than 5).                       *)
(***************************************************************************)
Coerced(x) == IF NumberOf(x).nan THEN 0 ELSE NumberOf(x).n

ComparesAsNumbers(act, contact) ==
  LET value == getContactFieldValue(contact, act.config.field)
  IN IF act.config.operator = "greater_than"
       THEN Coerced(value) > Coerced(act.config.value)
       ELSE Coerced(value) < Coerced(act.config.value)

C23_NonNumericIsZero ==
  \A w \in DOMAIN walks : \A i \in 1..Len(walks[w].trace) :
    LET a   == walks[w].automation
        act == ActionOf(a, walks[w].trace[i])
    IN act.type = "condition" /\ act.config.operator \in {"greater_than", "less_than"} =>
         SubSeq(walks[w].trace, i + 1, Len(walks[w].trace))
           = FoundIds(a, IF ComparesAsNumbers(act, walks[w].contact)
                           THEN act.config.true_actions
                           ELSE act.config.false_actions)


(***************************************************************************)
(* C24: for every inbound message and every button_click automation of the *)
(* user, the trigger check holds exactly if the message carries the button *)
(* payload configured for the automation: a message with the payload of    *)
(* another button does not match.                                          *)
(***************************************************************************)
CarriesPayload(e, a) ==
  events[e].content = ButtonPrefix \o Automations[a].trigger_config.button_payload

C24_ConfiguredPayloadOnly ==
  \A e \in DOMAIN events : \A a \in AutomationIds :
    /\ Automations[a].trigger_type = "button_click"
    /\ Automations[a].user_id = events[e].user_id
    => (Matches(a, e) <=> CarriesPayload(e, a))


(***************************************************************************)
(* C25: a keyword automation whose turn has come in the loop over the      *)
(* automations of the user has been started for the message exactly if the *)
(* lower-cased text of the message contains the lower-cased form of one of *)
(* its keywords as a substring; with an empty list of keywords, or without *)
(* a list, it is never started.                                            *)
(***************************************************************************)
OccursAt(text, word, i) ==
  /\ i + Len(word) <= Len(text)
  /\ \A k \in 1..Len(word) : LowerChar(text[i + k]) = LowerChar(word[k])

ContainsKeyword(a, text) ==
  /\ "keywords" \in DOMAIN Automations[a].trigger_config
  /\ \E n \in 1..Len(Automations[a].trigger_config.keywords) :
       \E i \in 0..Len(text) :
         OccursAt(text, Automations[a].trigger_config.keywords[n], i)

C25_KeywordSubstring ==
  \A e \in DOMAIN events : \A k \in 1..(events[e].next - 1) :
    LET a == events[e].userAutomations[k]
    IN Automations[a].trigger_type = "keyword" =>
         (WalksOf(e, a) # {} <=> ContainsKeyword(a, events[e].content))

\* The message "ah Oi!" of the contact of user 2 is done with: the automation
\* with the keyword "oi" was started, the two without keywords were not.
C25_Witness ==
  \E e \in DOMAIN events :
    /\ events[e].state = "done"
    /\ events[e].user_id = 2
    /\ events[e].userAutomations = << 3, 16, 17 >>
    /\ WalksOf(e, 3) # {}
    /\ WalksOf(e, 16) = {} /\ WalksOf(e, 17) = {}


(***************************************************************************)
(* C26: a job triggers at most one terminal event: there is a completion   *)
(* event for it exactly if its status is completed and a failure event     *)
(* exactly if its status is failed, never more than one in all; an event   *)
(* is emitted only in the step that makes the status of its job completed  *)
(* or failed, and the step that hands a job to a retry timer emits none.   *)
(***************************************************************************)
EventsOf(j) == {x \in emitted : x.job = j}

C26_OnePerJob ==
  \A j \in JobIds :
    /\ Cardinality(EventsOf(j)) <= 1
    /\ (\E x \in EventsOf(j) : x.event = "job_completed") <=> jobs[j].status = "completed"
    /\ (\E x \in EventsOf(j) : x.event = "job_failed") <=> jobs[j].status = "failed"

C26_EmitStep ==
  /\ \A x \in emitted' \ emitted :
       /\ jobs[x.job].status = "processing"
       /\ jobs'[x.job].status = IF x.event = "job_completed" THEN "completed" ELSE "failed"
  /\ \A j \in JobIds :
       jobs[j].status = "processing" /\ jobs'[j].status = "pending" =>
         EventsOf(j)' = EventsOf(j)

C26_OneTerminalEvent == []C26_OnePerJob /\ [][C26_EmitStep]_vars

\* A job has failed at its third attempt, after two retries: the one event
\* there is, is the failure event of that attempt.
C26_Witness ==
  \E j \in JobIds :
    /\ jobs[j].status = "failed" /\ jobs[j].attempts = 3
    /\ emitted = {[event |-> "job_failed", job |-> j, attempt |-> 3]}


(***************************************************************************)
(* C27: for each job type at most one batch is in flight, at most          *)
(* maxConcurrent jobs of the type have the status processing, and the busy *)
(* flag of the type is true exactly while a batch of the type is in        *)
(* flight (so it is cleared when the batch is over, whether or not a       *)
(* handler has failed).                                                    *)
(***************************************************************************)
BatchesOf(t) == {b \in batches : b.queueType = t}

Flag(t) == t \in DOMAIN processing /\ processing[t]

InProcessing(t) ==
  {j \in JobIds : jobs[j].job_type = t /\ jobs[j].status = "processing"}

C27_OneBatchPerType ==
  \A t \in QueueTypes :
    /\ Cardinality(BatchesOf(t)) <= 1
    /\ Cardinality(InProcessing(t)) <= maxConcurrent
    /\ Flag(t) <=> BatchesOf(t) # {}


(***************************************************************************)
(* C29: every job that addJob has accepted with scheduled_at <= now and a  *)
(* type that has a queue eventually has the status completed or failed,    *)
(* while handlers return, the polling intervals keep ticking, retry timers *)
(* fire and no queue is paused, cleared or destroyed.                      *)
(***************************************************************************)
Accepted(j) ==
  /\ j \in JobIds
  /\ jobs[j].job_type \in DOMAIN queues
  /\ jobs[j].scheduled_at <= now

Terminal(j) == j \in JobIds /\ jobs[j].status \in {"completed", "failed"}

C29_EveryJobEnds == \A j \in 1..MaxJobs : Accepted(j) ~> Terminal(j)

(***************************************************************************)
(* C30: every walk ends                                                    *)
(***************************************************************************)
Ended(w) == w \in DOMAIN walks /\ walks[w].state \in {"done", "aborted"}

\* C30: every call of executeAutomation, also for an automation whose
\* condition lists its own id or the id of a condition that leads back to it,
\* executes finitely many actions and then ends: a walk that was started is
\* eventually done or aborted.
C30_EveryWalkEnds ==
  \A w \in 1..MaxTagWalks : (w \in DOMAIN walks) ~> Ended(w)

(***************************************************************************)
(* C31: an event starts walks of its owner's automations only              *)
(***************************************************************************)
OwnerOf(a) == Automations[a].user_id

\* The automations of another owner that were in the Map and whose trigger
\* predicate holds for the message of event e.
ForeignMatches(e) ==
  {a \in Range(activeAutomations) :
     /\ OwnerOf(a) # events[e].user_id
     /\ shouldTriggerAutomation(a, events[e].contact, events[e].content)}

\* C31: an inbound event of owner u never starts a walk for an automation
\* whose owner differs from u, even when the trigger predicate of that
\* automation matches the event: every walk started for an event is a walk of
\* an automation of the event's owner.
C31_OwnAutomationsOnly ==
  \A w \in DOMAIN walks :
    walks[w].event # 0 => OwnerOf(walks[w].automation) = events[walks[w].event].user_id

\* The call for a message of owner 2 has returned after starting a walk of
\* that owner, while an automation of owner 1 that matches was in the Map.
C31_Witness ==
  \E e \in DOMAIN events :
    /\ events[e].state = "done"
    /\ ForeignMatches(e) # {}
    /\ \E w \in DOMAIN walks : walks[w].event = e /\ walks[w].state = "done"

(***************************************************************************)
(* C32: pauseQueue and resumeQueue                                         *)
(***************************************************************************)
\* One polling interval for a type the Map holds, none for any other, and at
\* most one batch of a type in flight.
C32_OneLoop ==
  \A t \in QueueTypes :
    /\ intervals[t] = (IF t \in workers THEN 1 ELSE 0)
    /\ Cardinality(BatchesOf(t)) <= 1

\* A step taken while type t is paused starts no batch of t, and the jobs of
\* the queue of t are still in it afterwards, in the same order.
C32_PausedStep ==
  \A t \in QueueTypes :
    t \notin workers =>
      /\ \A b \in batches' \ batches : b.settled = {} => b.queueType # t
      /\ SelectSeq(queues'[t], LAMBDA j : j \in Range(queues[t])) = queues[t]

\* A job in a queue leaves it for a batch, unless the type is paused (again).
C32_DispatchedAgain ==
  \A j \in 1..MaxAdminJobs :
    (j \in DOMAIN jobs /\ InQueue(j))
      ~> (~InQueue(j) \/ jobs[j].job_type \notin workers)

\* C32: across any sequence of pauseQueue and resumeQueue calls there is at
\* most one dispatch loop per job type; while a type is paused no new batch of
\* that type starts and its queued jobs are retained in order, and after
\* resumeQueue they are dispatched again.
C32_PauseResume ==
  []C32_OneLoop /\ [][C32_PausedStep]_vars /\ C32_DispatchedAgain

\* The type is paused while a batch of it is in flight, and its queue holds a
\* job that a retry timer put back.
C32_Witness ==
  /\ "send_message" \notin workers
  /\ BatchesOf("send_message") # {}
  /\ \E i \in 1..Len(queues["send_message"]) :
       jobs[queues["send_message"][i]].attempts >= 1

(***************************************************************************)
(* C33: clearQueue                                                         *)
(***************************************************************************)
\* The batches a step starts.
NewBatches == {b \in batches' \ batches : b.settled = {}}

\* C33: after clearQueue(type) has returned, no job that had been added to
\* that type before the call is dispatched, the jobs that were waiting on a
\* retry timer at the time of the call included: no batch that starts holds a
\* job noted at a clearQueue call.
C33_NoDispatchAfterClear ==
  [][\A b \in NewBatches : Range(b.jobs) \cap clearedJobs = {}]_vars

(***************************************************************************)
(* C34: each job is in exactly one place                                   *)
(***************************************************************************)
InOwnQueue(j) ==
  /\ jobs[j].job_type \in DOMAIN queues
  /\ j \in Range(queues[jobs[j].job_type])

\* The places job j is in: the queue of its type, a batch in flight (its
\* processJob call has not settled), a retry timer, a terminal status.
PlacesOf(j) ==
  {p \in {"queue", "batch", "timer", "terminal"} :
     \/ p = "queue" /\ InOwnQueue(j)
     \/ p = "batch" /\ InFlight(j)
     \/ p = "timer" /\ OnTimer(j)
     \/ p = "terminal" /\ Terminal(j)}

====
